---- MODULE Spec2Model ----
(***************************************************************************)
(* A model of the concurrent fetch-orchestration core of legalbot:         *)
(*   - ConcurrencyPool (flows/caselaw_casecollection.js and                *)
(*     flows/caselaw_contentextraction.js hold the same class),            *)
(*   - RetryManager.withRetries (client/retries.js),                       *)
(*   - Crawler.fetch / Crawler.enforceRateLimit (client/index.js),         *)
(*   - HeaderManager (client/headers.js) and the error classes             *)
(*     (client/errors.js),                                                 *)
(*   - Crawler.addPipeline / use / executePipeline / extract               *)
(*     (client/index.js).                                                  *)
(*                                                                         *)
(* JavaScript runs one job at a time.  An `await` suspends the async       *)
(* function; its continuation is a job appended to the FIFO job queue when *)
(* the awaited promise settles.  Every action below is the code that runs  *)
(* between two suspension points of one async function.                    *)
(***************************************************************************)
EXTENDS Integers, Sequences, FiniteSets, TLC

(***************************************************************************)
(* Bounds of the model.                                                    *)
(***************************************************************************)
NumAdders == 3
NumDrainers == 2
MaxSize == 2

NumCalls == 2
NumKeys == 2
MaxFail == 1
MaxRetriesCfg == 2
MaxElapsed == 2
MaxConcurrency == 1
MaxDelayAttempts == 6

NumDomains == 2
NumHeaderCalls == 3
MaxAgents == 2
MaxTimers == 2
MaxTtl == 2

MaxMiddleware == 3
MaxSelectors == 3
MaxExecutions == 2

NumCases == 4
NumCourts == 2
MaxYears == 2

\* The request rate the crawler is configured with (rateLimit.requestsPerSecond),
\* chosen so that minInterval is a few milliseconds of the model's clock.
requestsPerSecond == 500

(***************************************************************************)
(* Program constants.                                                      *)
(***************************************************************************)
initialDelay == 2000
maxDelay == 60000
backoffFactor == 2
DefaultRetryAfter == 60

Adders == 1..NumAdders
Drainers == (NumAdders + 1)..(NumAdders + NumDrainers)
PoolCallers == Adders \cup Drainers

VARIABLES
    \* ---- ConcurrencyPool
    size,        \* this.size
    running,     \* this.running
    queue,       \* this.queue: the resolvers pushed by suspended callers, by caller
    jobs,        \* continuations of pool callers whose awaited promise has settled
    pc,          \* where each pool caller is
    fullSeq,     \* the adders that found running >= size, in the order of their add() calls
    incs,        \* per adder, how often its add() executed this.running++
    decs,        \* per adder, how often its add() executed this.running--
    drainSeen,   \* per drainer, this.running when its waitForAll() returned (-1: not yet)
    \* ---- RetryManager
    maxRetries,     \* this.config.maxRetries
    retryHistory,   \* this.retryHistory: per key, the list of retry records
    retryLocks,     \* this.retryLocks: per key, the promise last set as its lock
    promises,       \* the currentLock promise of each (call, attempt): state and error
    rpc,            \* where each withRetries call is
    key,            \* retryKey of each call
    attempt,        \* `attempt` of each call
    lastError,      \* `lastError` of each call
    awaiting,       \* the promise a call awaits at `await this.getRetryLock(retryKey)`
    invocations,    \* how often each call has invoked its operation
    plan,           \* the behaviour of each call's operation
    result,         \* what each call returned ("ok") or threw (the error)
    slept,          \* the delay each call last passed to this.sleep (-1: none)
    \* ---- Crawler
    concurrency,     \* config rateLimit.concurrency
    now,             \* Date.now()
    lastRequestTime, \* this.lastRequestTime
    requestCount,    \* this.requestCount
    opStage,         \* where the fetch operation of each call is
    wakeAt,          \* when the setTimeout of enforceRateLimit is due, per call
    closestGap,      \* the least time between two completions of enforceRateLimit (-1: none yet)
    sent,            \* per call, the headers of the network calls it has issued, in order
    \* ---- HeaderManager
    userAgents,      \* this.userAgents
    customHeaders,   \* this.customHeaders: per domain, <<>> or <<headers>>
    domainHeaders,   \* this.domainHeaders: per domain, <<>> or <<headers>>
    userAgentIndex,  \* this.userAgentIndex: per domain, <<>> or <<index>>
    headerLocks,     \* this.headerLocks: per domain, <<>> or <<the promise last set>>
    timers,          \* the pending setTimeout callbacks of setCustomHeaders, in creation order
    hpc,             \* where each getHeaders call is
    hdomain,         \* the domain of each getHeaders call
    hreturn,         \* what each getHeaders call returned: <<>> or <<headers>>
    hjobs,           \* continuations of getHeaders calls whose awaited lock has settled
    callSeq,         \* per domain, the getHeaders calls in the order they were made
    overrides,       \* per domain, <<>> or the last setCustomHeaders call: its headers, when it expires
    resetDone,       \* whether reset() has been called, and on what state
    \* ---- ErrorFactory and the pure functions, applied to drawn inputs
    errorInput,      \* the arguments an error is built from
    builtError,      \* the error built (NoError: none yet)
    pipelineError,   \* the error executePipeline threw for builtError as cause
    verdict,         \* what isRetryableError and shouldRetry answered: <<>> or <<b, b>>
    delays,          \* calculateDelay(1), calculateDelay(2), ... as computed so far
    \* ---- Crawler pipelines (addPipeline, use, executePipeline)
    pipelines,       \* this.pipelines: per name, <<>> or <<the pipeline function>>
    middleware,      \* this.middleware, in registration order
    pstate,          \* where the executePipeline call is
    pname,           \* its `name` argument
    pcontext,        \* its `context` argument
    pfn,             \* its `pipeline`: <<>> or <<the function looked up at the call>>
    currentContext,  \* its `currentContext`
    ppos,            \* how far its loop over this.middleware has come
    invoked,         \* the functions it has invoked so far, each with the context it was given
    preturn,         \* what it returned: <<>> or <<value>>
    pthrown,         \* what it threw: <<>> or <<error>>
    phistory,        \* the executePipeline calls that ended before it: what each invoked, how it ended
    \* ---- Crawler.extract and the response handling of Crawler.fetch, applied to drawn inputs
    selectors,       \* the `selectors` argument of extract, as its entries in order
    extracted,       \* what extract did: <<>>, or <<its outcome>>
    response,        \* the response of the network call: its status and retry-after header
    outcome,         \* what fetchWithRetries did with it: <<>>, or <<returned or thrown>>
    \* ---- CaseLawContentExtractor (flows/caselaw_contentextraction.js)
    inputCases,        \* cases.length, the cases being numbered from 1
    xstate,            \* where execute is
    batchIndex,        \* the `i` of the loop of execute
    xpc,               \* where the processCase of each case is
    savedToFileCount,  \* this.savedToFileCount
    processedCount,    \* this.processedCount
    failedCount,       \* this.failedCount
    written,           \* the k of every fs.writeFile to case_k.md, in the order of the calls
    xreturn,           \* what execute returned: <<>> or <<its totals>>
    \* ---- AusLegalCasesCrawler (flows/caselaw_casecollection.js)
    baseUrls,          \* this.baseUrls: the courts left, in order
    currentYear,       \* how many years currentYear is behind 2024
    collected,         \* this.cases: the pages (court, year) whose cases it holds
    fetchedPages,      \* the pages (court, year) fetched so far
    ended,             \* the pages whose fetch failed with status 500
    cpc,               \* where the pooled processCourt of each court is, for the current year
    cresult,           \* the status the page of each court was answered with this year (0: not yet)
    cstate,            \* where execute is
    cthrown            \* what execute threw: <<>> or <<the failed page and its status>>

poolVars == <<size, running, queue, jobs, pc, fullSeq, incs, decs, drainSeen>>

retryVars == <<maxRetries, retryHistory, retryLocks, promises, rpc, key, attempt,
               lastError, awaiting, invocations, plan, result, slept>>

crawlerVars == <<concurrency, now, lastRequestTime, requestCount, opStage, wakeAt, closestGap,
                 sent>>

headerVars == <<userAgents, customHeaders, domainHeaders, userAgentIndex, headerLocks,
                timers, hpc, hdomain, hreturn, hjobs, callSeq, overrides, resetDone>>

errorVars == <<errorInput, builtError, pipelineError, verdict, delays>>

pipelineVars == <<pipelines, middleware, pstate, pname, pcontext, pfn, currentContext, ppos, invoked,
                  preturn, pthrown, phistory>>

pureVars == <<selectors, extracted, response, outcome>>
extractionVars == <<inputCases, xstate, batchIndex, xpc, savedToFileCount, processedCount,
                    failedCount, written, xreturn>>
collectionVars == <<baseUrls, currentYear, collected, fetchedPages, ended, cpc, cresult, cstate,
                    cthrown>>
flowVars == <<extractionVars, collectionVars>>

vars == <<poolVars, retryVars, crawlerVars, headerVars, errorVars, pipelineVars, pureVars,
          flowVars>>

(***************************************************************************)
(* Helpers on sequences.                                                   *)
(***************************************************************************)
RemoveAt(s, i) == SubSeq(s, 1, i - 1) \o SubSeq(s, i + 1, Len(s))

(***************************************************************************)
(* ConcurrencyPool                                                         *)
(***************************************************************************)

\* constructor(size): running = 0, queue = [].  No caller has called yet.
PoolInit(n) ==
    /\ size = n
    /\ running = 0
    /\ queue = <<>>
    /\ jobs = <<>>
    /\ pc = [c \in PoolCallers |-> "idle"]
    /\ fullSeq = <<>>
    /\ incs = [a \in Adders |-> 0]
    /\ decs = [a \in Adders |-> 0]
    /\ drainSeen = [d \in Drainers |-> -1]

\* add(): `if (this.running >= this.size)`
PoolFull == running >= size

\* A LIFO release, against which the FIFO order is tested: the newest waiter is taken.
ShiftIndexLast(q) == Len(q)

\* finally: `this.queue.shift()` removes and returns the element at this index.
ShiftIndex(q) == 1

\* add(fn), from the call to its first suspension point: a full pool pushes
\* the caller's resolver and suspends; otherwise running++ and fn() is invoked
\* in the same job, and add() suspends at `await fn()`.
\* The call is made by whatever job is running: it may come while the job queue
\* still holds the continuation of a waiter that a release has just woken.
Add(a) ==
    /\ a \in Adders
    /\ pc[a] = "idle"
    /\ IF PoolFull
       THEN /\ queue' = Append(queue, a)
            /\ pc' = [pc EXCEPT ![a] = "queued"]
            /\ fullSeq' = Append(fullSeq, a)
            /\ UNCHANGED <<running, incs>>
       ELSE /\ running' = running + 1
            /\ incs' = [incs EXCEPT ![a] = @ + 1]
            /\ pc' = [pc EXCEPT ![a] = "running"]
            /\ UNCHANGED <<queue, fullSeq>>
    /\ UNCHANGED <<size, jobs, decs, drainSeen>>
    /\ UNCHANGED <<retryVars, crawlerVars, headerVars, errorVars, pipelineVars, pureVars, flowVars>>

\* A woken add() resumes after its `await new Promise(...)`: running++ without
\* looking at this.size again, then fn() is invoked.
ResumeAdd(a) ==
    /\ a \in Adders
    /\ jobs # <<>> /\ Head(jobs) = a
    /\ pc[a] = "woken"
    /\ jobs' = Tail(jobs)
    /\ running' = running + 1
    /\ incs' = [incs EXCEPT ![a] = @ + 1]
    /\ pc' = [pc EXCEPT ![a] = "running"]
    /\ UNCHANGED <<size, queue, fullSeq, decs, drainSeen>>
    /\ UNCHANGED <<retryVars, crawlerVars, headerVars, errorVars, pipelineVars, pureVars, flowVars>>

\* The promise returned by fn() settles, r telling whether fn returned or
\* threw: the continuation of `await fn()` is appended to the job queue.
FnSettle(a, r) ==
    /\ a \in Adders
    /\ pc[a] = "running"
    /\ r \in {"returned", "threw"}
    /\ pc' = [pc EXCEPT ![a] = r]
    /\ jobs' = Append(jobs, a)
    /\ UNCHANGED <<size, running, queue, fullSeq, incs, decs, drainSeen>>
    /\ UNCHANGED <<retryVars, crawlerVars, headerVars, errorVars, pipelineVars, pureVars, flowVars>>

\* The finally block of add(), entered when fn has returned and when it has
\* thrown: running--, and if a resolver is queued it is shifted off the queue
\* and called, which appends the continuation of the caller that pushed it
\* (an add() or a waitForAll()) to the job queue.  Then add() returns fn's
\* value or rethrows its error.
Finally(a) ==
    /\ a \in Adders
    /\ jobs # <<>> /\ Head(jobs) = a
    /\ pc[a] \in {"returned", "threw"}
    /\ running' = running - 1
    /\ decs' = [decs EXCEPT ![a] = @ + 1]
    /\ IF Len(queue) > 0
       THEN LET next == queue[ShiftIndex(queue)]
            IN  /\ queue' = RemoveAt(queue, ShiftIndex(queue))
                /\ jobs' = Append(Tail(jobs), next)
                /\ pc' = [pc EXCEPT ![a] = "done", ![next] = "woken"]
       ELSE /\ jobs' = Tail(jobs)
            /\ pc' = [pc EXCEPT ![a] = "done"]
            /\ UNCHANGED queue
    /\ UNCHANGED <<size, fullSeq, incs, drainSeen>>
    /\ UNCHANGED <<retryVars, crawlerVars, headerVars, errorVars, pipelineVars, pureVars, flowVars>>

\* waitForAll(), from the call to its suspension point: with running > 0 it
\* pushes a resolver on the same queue as add() and suspends; with running = 0
\* it returns without suspending.
WaitForAll(d) ==
    /\ d \in Drainers
    /\ pc[d] = "idle"
    /\ IF running > 0
       THEN /\ queue' = Append(queue, d)
            /\ pc' = [pc EXCEPT ![d] = "queued"]
            /\ UNCHANGED drainSeen
       ELSE /\ pc' = [pc EXCEPT ![d] = "done"]
            /\ drainSeen' = [drainSeen EXCEPT ![d] = running]
            /\ UNCHANGED queue
    /\ UNCHANGED <<size, running, jobs, fullSeq, incs, decs>>
    /\ UNCHANGED <<retryVars, crawlerVars, headerVars, errorVars, pipelineVars, pureVars, flowVars>>

\* A woken waitForAll() resumes after its await and returns: it does not look
\* at this.running again.
ResumeWaitForAll(d) ==
    /\ d \in Drainers
    /\ jobs # <<>> /\ Head(jobs) = d
    /\ pc[d] = "woken"
    /\ jobs' = Tail(jobs)
    /\ pc' = [pc EXCEPT ![d] = "done"]
    /\ drainSeen' = [drainSeen EXCEPT ![d] = running]
    /\ UNCHANGED <<size, running, queue, fullSeq, incs, decs>>
    /\ UNCHANGED <<retryVars, crawlerVars, headerVars, errorVars, pipelineVars, pureVars, flowVars>>

NextPool ==
    \/ \E a \in Adders : Add(a)
    \/ \E a \in Adders : ResumeAdd(a)
    \/ \E a \in Adders, r \in {"returned", "threw"} : FnSettle(a, r)
    \/ \E a \in Adders : Finally(a)
    \/ \E d \in Drainers : WaitForAll(d)
    \/ \E d \in Drainers : ResumeWaitForAll(d)


(***************************************************************************)
(* Error taxonomy (client/errors.js)                                       *)
(***************************************************************************)

\* An error object.  `crawler`: it is an instance of CrawlerError; `code` and
\* `type`: the fields of a raw transport error ("" when undefined);
\* statusCode and retryAfter: 0 when undefined; by, inv: the call and the
\* invocation of its operation that created the object (its identity).
Err(name, crawler, retryable, code, type, statusCode, retryAfter, by, inv) ==
    [name |-> name, crawler |-> crawler, retryable |-> retryable, code |-> code,
     type |-> type, statusCode |-> statusCode, retryAfter |-> retryAfter,
     by |-> by, inv |-> inv]

\* `null`, where an error may stand.
NoError == Err("null", FALSE, FALSE, "", "", 0, 0, 0, 0)

\* The options object passed to createError, reduced to the fields the
\* constructors read; retryable is "unset" when the caller passes none.
Options(statusCode, retryAfter, retryable) ==
    [statusCode |-> statusCode, retryAfter |-> retryAfter, retryable |-> retryable]

\* A base constructor that takes an error for retryable only when told so.
CrawlerErrorRetryableStrict(opt) == opt.retryable = "yes"

\* CrawlerError constructor: `this.retryable = options.retryable ?? true`.
CrawlerErrorRetryable(opt) == IF opt.retryable = "unset" THEN TRUE ELSE opt.retryable = "yes"

\* ErrorFactory.createError(type, message, options) with the constructors of
\* the error classes: Network and RateLimit force retryable = true, Parse and
\* Validation force false, the others keep the base class's default.
CreateError(type, opt, by, inv) ==
    CASE type = "network" ->
            Err("NetworkError", TRUE, TRUE, "", "", opt.statusCode, 0, by, inv)
      [] type = "rateLimit" ->
            Err("RateLimitError", TRUE, TRUE, "", "", opt.statusCode, opt.retryAfter, by, inv)
      [] type = "parse" ->
            Err("ParseError", TRUE, FALSE, "", "", opt.statusCode, 0, by, inv)
      [] type = "validation" ->
            Err("ValidationError", TRUE, FALSE, "", "", opt.statusCode, 0, by, inv)
      [] type = "pipeline" ->
            Err("PipelineError", TRUE, CrawlerErrorRetryable(opt), "", "", opt.statusCode, 0, by, inv)
      [] type = "queue" ->
            Err("QueueError", TRUE, CrawlerErrorRetryable(opt), "", "", opt.statusCode, 0, by, inv)
      [] OTHER ->
            Err("CrawlerError", TRUE, CrawlerErrorRetryable(opt), "", "", opt.statusCode, 0, by, inv)

\* An error that is no CrawlerError: a native Error or the FetchError of
\* node-fetch, of which isRetryableError reads `code` and `type`.
RawError(code, type, by, inv) == Err("Error", FALSE, FALSE, code, type, 0, 0, by, inv)

\* isRetryableError reading nothing but `code` of an untyped error.
IsRetryableErrorCodeOnly(e) ==
    IF e.crawler
    THEN e.retryable
    ELSE e.code \in {"ECONNRESET", "ECONNREFUSED", "ETIMEDOUT"}

\* ErrorFactory.isRetryableError(error)
IsRetryableError(e) ==
    IF e.crawler
    THEN e.retryable
    ELSE \/ e.code = "ECONNRESET"
         \/ e.code = "ECONNREFUSED"
         \/ e.code = "ETIMEDOUT"
         \/ e.type = "request-timeout"

(***************************************************************************)
(* RetryManager (client/retries.js)                                        *)
(***************************************************************************)
Calls == 1..NumCalls
Keys == 1..NumKeys
Attempts == 1..MaxRetriesCfg

\* The values Math.random() * 2 - 1 takes in the model, in halves: -1, 0, 1/2.
JitterHalves == {-2, 0, 1}

\* The HTTP statuses the server answers with, and the values of a 429's
\* retry-after header as parseInt reads them (0: absent, not a number or 0).
Statuses == {200, 429, 500}
RetryAfterHeaders == {0, 5}

\* The kinds of error the operations of the model throw.
PlanErrors == {"network", "parse"}

\* The operations handed to withRetries: one fails with a Network error on
\* its first `fails` invocations and succeeds afterwards, or fails always with
\* an error of kind `err`.
Plans ==
    {[kind |-> "operation", fails |-> f, always |-> FALSE, err |-> "network", retryAfter |-> 0] :
        f \in 0..MaxFail}
    \cup {[kind |-> "operation", fails |-> 0, always |-> TRUE, err |-> e, retryAfter |-> 0] :
            e \in PlanErrors}

\* Further operations, which always fail: with a Validation error, with an
\* untyped error without a transport code ("raw") or with one ("transport"),
\* or with a RateLimit error whose metadata.retryAfter is r (0: undefined).
AllPlans ==
    Plans
    \cup {[kind |-> "operation", fails |-> 0, always |-> TRUE, err |-> e, retryAfter |-> 0] :
            e \in {"validation", "raw", "transport"}}
    \cup {[kind |-> "operation", fails |-> 0, always |-> TRUE, err |-> "rateLimit", retryAfter |-> r] :
            r \in RetryAfterHeaders}

\* The error the operation of a plan throws on invocation inv of call c.
ThrownError(pl, c, inv) ==
    CASE pl.err = "raw" -> RawError("", "", c, inv)
      [] pl.err = "transport" -> RawError("ECONNRESET", "", c, inv)
      [] OTHER -> CreateError(pl.err, Options(0, pl.retryAfter, "unset"), c, inv)

\* The operation Crawler.fetch hands to withRetries (fetchWithRetries).
FetchPlan == [kind |-> "fetch", fails |-> 0, always |-> FALSE, err |-> "network", retryAfter |-> 0]

\* A promise used as a retry lock: the currentLock of a call's attempt, or
\* (by = 0) the Promise.resolve() that getRetryLock creates.
Lock(c, n) == [by |-> c, att |-> n]
ResolvedLock == Lock(0, 0)

\* A rejected lock whose reason is lost to the awaiting call.
LockErrorLost(p) == NoError

LockState(p) == IF p.by = 0 THEN "fulfilled" ELSE promises[p.by][p.att].st
LockError(p) == IF p.by = 0 THEN NoError ELSE promises[p.by][p.att].err

\* The continuation of some call is in the job queue: the lock it awaits has
\* settled.  Promise jobs run before any timer or network callback, and
\* before the clock moves on.
JobsPending ==
    \E c \in Calls : rpc[c] = "awaitLock" /\ LockState(awaiting[c]) \in {"fulfilled", "rejected"}

\* constructor(config): the maps are empty; no call has been made.
RetryManagerInit(mr) ==
    /\ maxRetries = mr
    /\ retryHistory = [k \in Keys |-> <<>>]
    /\ retryLocks = [k \in Keys |-> <<>>]
    /\ promises = [c \in Calls |-> [n \in Attempts |-> [st |-> "none", err |-> NoError]]]
    /\ rpc = [c \in Calls |-> "idle"]
    /\ key = [c \in Calls |-> 1]
    /\ attempt = [c \in Calls |-> 0]
    /\ lastError = [c \in Calls |-> NoError]
    /\ awaiting = [c \in Calls |-> ResolvedLock]
    /\ invocations = [c \in Calls |-> 0]
    /\ plan = [c \in Calls |-> FetchPlan]
    /\ result = [c \in Calls |-> NoError]
    /\ slept = [c \in Calls |-> -1]

RECURSIVE Pow(_, _)
\* Math.pow(b, n) for a natural n.
Pow(b, n) == IF n = 0 THEN 1 ELSE b * Pow(b, n - 1)
Min(x, y) == IF x <= y THEN x ELSE y

\* The retry configuration: DEFAULT_RETRY_CONFIG, which the options of the
\* constructor may override field by field.
DefaultRetryConfig ==
    [initialDelay |-> initialDelay, maxDelay |-> maxDelay, backoffFactor |-> backoffFactor]

\* The body of calculateDelay without the cap of maxDelay.
BackoffDelayUncapped(cfg, att, jit) ==
    LET exponentialDelay == cfg.initialDelay * Pow(cfg.backoffFactor, att - 1)
        jitter == (exponentialDelay * jit) \div 8
    IN  exponentialDelay + jitter

\* The body of calculateDelay(attempt) for `this.config` = cfg, jit being
\* 2 * (Math.random() * 2 - 1).
BackoffDelay(cfg, att, jit) ==
    LET exponentialDelay == cfg.initialDelay * Pow(cfg.backoffFactor, att - 1)
        jitter == (exponentialDelay * jit) \div 8
    IN  Min(exponentialDelay + jitter, cfg.maxDelay)

\* calculateDelay(attempt) of a manager constructed with the default config.
CalculateDelay(att, jit) == BackoffDelay(DefaultRetryConfig, att, jit)

\* The delay of a retry taken from the backoff formula whatever the error.
RetryDelayBackoffOnly(error, att, jit) == CalculateDelay(att, jit)

\* The delay withRetries computes for a failed attempt: calculateDelay, or
\* the retry-after of a RateLimit error that carries one, in milliseconds.
RetryDelay(error, att, jit) ==
    IF error.name = "RateLimitError" /\ error.retryAfter # 0
    THEN error.retryAfter * 1000
    ELSE CalculateDelay(att, jit)

\* shouldRetry that looks at the attempt only.
ShouldRetryAttemptOnly(error, att) == att < maxRetries

\* shouldRetry with its attempt bound off by one (attempt > maxRetries).
ShouldRetryLate(error, att) ==
    IF att > maxRetries THEN FALSE ELSE IsRetryableError(error)

\* shouldRetry(error, attempt, key)
ShouldRetry(error, att) ==
    IF att >= maxRetries
    THEN FALSE
    ELSE IF ~IsRetryableError(error) THEN FALSE ELSE TRUE

\* getRetryLock(key) that gives a key without a lock the lock of another key.
LocksAfterGetShared(k) ==
    IF retryLocks[k] # <<>>
    THEN retryLocks
    ELSE IF \E j \in Keys : retryLocks[j] # <<>>
    THEN [retryLocks EXCEPT ![k] = retryLocks[CHOOSE j \in Keys : retryLocks[j] # <<>>]]
    ELSE [retryLocks EXCEPT ![k] = <<ResolvedLock>>]

\* getRetryLock(key): the key's lock after the call, which creates a resolved
\* promise for a key that has none.
LocksAfterGet(k) ==
    IF retryLocks[k] = <<>> THEN [retryLocks EXCEPT ![k] = <<ResolvedLock>>] ELSE retryLocks

\* updateRetryHistory(key, record)
HistoryAfterUpdate(k, record) == [retryHistory EXCEPT ![k] = Append(@, record)]

\* getRetryHistory(key)
GetRetryHistory(k) == retryHistory[k]

\* The head of the while loop of withRetries, up to its suspension at
\* `await this.getRetryLock(retryKey)`, for a call whose attempt is att.
LoopHead(c, k, att) ==
    /\ attempt' = [attempt EXCEPT ![c] = att]
    /\ retryLocks' = LocksAfterGet(k)
    /\ awaiting' = [awaiting EXCEPT ![c] = LocksAfterGet(k)[k][1]]
    /\ rpc' = [rpc EXCEPT ![c] = "awaitLock"]

(***************************************************************************)
(* Crawler.enforceRateLimit (client/index.js)                              *)
(***************************************************************************)
minInterval == 1000 \div requestsPerSecond

MaxTime == minInterval + MaxElapsed

\* The headers of the network call read from the domain's headers as they
\* are when the call is issued.
RequestHeadersOfDomain(c) ==
    IF domainHeaders[hdomain[c]] # <<>> THEN domainHeaders[hdomain[c]] ELSE hreturn[c]

\* `headers: { ...headers, ...options.headers }`, for a fetch without options:
\* what `await this.headers.getHeaders(domain)` gave at the head of fetch
\* (<<>> where the model leaves the headers out).
RequestHeaders(c) == hreturn[c]

\* The end of enforceRateLimit: lastRequestTime = Date.now(), requestCount++.
\* The network call of fetchWithRetries is issued by the same job.
RateLimitPass(c) ==
    /\ lastRequestTime' = now
    /\ requestCount' = requestCount + 1
    /\ closestGap' = IF requestCount = 0 THEN closestGap
                     ELSE IF closestGap = -1 THEN now - lastRequestTime
                     ELSE Min(closestGap, now - lastRequestTime)
    /\ opStage' = [opStage EXCEPT ![c] = "network"]
    /\ sent' = [sent EXCEPT ![c] = Append(@, RequestHeaders(c))]

\* enforceRateLimit() from its call to its suspension point or its end.
EnforceRateLimit(c) ==
    LET timeSinceLastRequest == now - lastRequestTime
    IN  IF timeSinceLastRequest < minInterval
        THEN /\ opStage' = [opStage EXCEPT ![c] = "rateWait"]
             /\ wakeAt' = [wakeAt EXCEPT ![c] = now + (minInterval - timeSinceLastRequest)]
             /\ UNCHANGED <<lastRequestTime, requestCount, closestGap, sent>>
        ELSE /\ RateLimitPass(c)
             /\ UNCHANGED wakeAt

\* constructor(options): lastRequestTime = 0, requestCount = 0, and Date.now()
\* is far more than minInterval after 0 (served = 0); or a crawler whose
\* last request has passed enforceRateLimit in this millisecond (served = 1).
CrawlerInit(n, served) ==
    /\ concurrency = n
    /\ now = minInterval
    /\ lastRequestTime = IF served = 0 THEN 0 ELSE minInterval
    /\ requestCount = served
    /\ opStage = [c \in Calls |-> "none"]
    /\ wakeAt = [c \in Calls |-> 0]
    /\ closestGap = -1
    /\ sent = [c \in Calls |-> <<>>]

(***************************************************************************)
(* RetryManager.withRetries, job by job                                    *)
(***************************************************************************)

\* withRetries(operation, key) is called: attempt = 1, lastError = null, and
\* the loop runs to its first await.
Start(c, k, pl) ==
    /\ rpc[c] = "idle"
    /\ key' = [key EXCEPT ![c] = k]
    /\ plan' = [plan EXCEPT ![c] = pl]
    /\ LoopHead(c, k, 1)
    /\ UNCHANGED <<maxRetries, retryHistory, promises, lastError, invocations, result, slept>>
    /\ UNCHANGED <<poolVars, crawlerVars, headerVars, errorVars, pipelineVars, pureVars, flowVars>>

\* Calls and keys are interchangeable: call c uses one of the first c keys.
WithRetries(c, k, pl) ==
    /\ pl \in Plans
    /\ k <= c
    /\ Start(c, k, pl)

\* Crawler.fetch(url), once the headers of the url's domain are resolved:
\* withRetries(fetchWithRetries, url).
Fetch(c, url) ==
    /\ url <= c
    /\ Start(c, url, FetchPlan)

\* withRetries(operation, key) called when no other call is in flight; the
\* calls are numbered in the order they are made.
WithRetriesAlone(c, k, pl) ==
    /\ pl \in AllPlans
    /\ k <= c
    /\ \A d \in Calls : d < c => rpc[d] \in {"returned", "thrown", "thrownLast"}
    /\ \A d \in Calls : d > c => rpc[d] = "idle"
    /\ Start(c, k, pl)

\* withRetries(operation, key), the calls being numbered in the order they
\* are made: a call is made once the calls before it have been.
WithRetriesInOrder(c, k, pl) ==
    /\ \A d \in Calls : d < c => rpc[d] # "idle"
    /\ WithRetries(c, k, pl)

\* The outer catch of withRetries for an error thrown inside the try, and
\* the test of the while loop after `attempt++`: the loop goes on to its next
\* pass, or is left for the `throw lastError` that follows it.
OuterCatch(c, error) ==
    IF ~ShouldRetry(error, attempt[c])
    THEN /\ rpc' = [rpc EXCEPT ![c] = "thrown"]
         /\ result' = [result EXCEPT ![c] = error]
         /\ UNCHANGED <<attempt, retryLocks, awaiting>>
    ELSE IF attempt[c] + 1 <= maxRetries
    THEN /\ LoopHead(c, key[c], attempt[c] + 1)
         /\ UNCHANGED result
    ELSE /\ attempt' = [attempt EXCEPT ![c] = @ + 1]
         /\ rpc' = [rpc EXCEPT ![c] = "thrownLast"]
         /\ result' = [result EXCEPT ![c] = lastError[c]]
         /\ UNCHANGED <<retryLocks, awaiting>>

\* `await this.getRetryLock(retryKey)` ends.  A fulfilled lock lets the call
\* create currentLock, whose body invokes operation() in the same job, and
\* set it as the key's lock.  A rejected lock makes the await throw the
\* lock's error inside the try, which goes to the outer catch.
AwaitLockDone(c) ==
    /\ rpc[c] = "awaitLock"
    /\ LockState(awaiting[c]) \in {"fulfilled", "rejected"}
    /\ IF LockState(awaiting[c]) = "fulfilled"
       THEN /\ promises' = [promises EXCEPT ![c][attempt[c]] = [st |-> "pending", err |-> NoError]]
            /\ invocations' = [invocations EXCEPT ![c] = @ + 1]
            /\ retryLocks' = [retryLocks EXCEPT ![key[c]] = <<Lock(c, attempt[c])>>]
            /\ rpc' = [rpc EXCEPT ![c] = "operation"]
            /\ IF plan[c].kind = "fetch"
               THEN EnforceRateLimit(c) /\ UNCHANGED <<concurrency, now>>
               ELSE UNCHANGED crawlerVars
            /\ UNCHANGED <<attempt, awaiting, result>>
       ELSE /\ OuterCatch(c, LockError(awaiting[c]))
            /\ UNCHANGED <<promises, invocations, crawlerVars>>
    /\ UNCHANGED <<maxRetries, retryHistory, key, lastError, plan, slept>>
    /\ UNCHANGED <<poolVars, headerVars, errorVars, pipelineVars, pureVars, flowVars>>

\* operation() has returned: the key's history is deleted, currentLock is
\* fulfilled and withRetries returns the result.
Succeed(c) ==
    /\ retryHistory' = [retryHistory EXCEPT ![key[c]] = <<>>]
    /\ promises' = [promises EXCEPT ![c][attempt[c]] = [st |-> "fulfilled", err |-> NoError]]
    /\ rpc' = [rpc EXCEPT ![c] = "returned"]
    /\ UNCHANGED <<maxRetries, retryLocks, key, attempt, lastError, awaiting, invocations,
                   plan, result, slept>>

\* operation() has thrown `error`: the catch inside currentLock.  An error
\* that is not to be retried rejects currentLock and passes through the outer
\* catch to the caller.  Otherwise the delay is computed, a record is added to
\* the history and the body sleeps.
Fail(c, error, jit) ==
    /\ lastError' = [lastError EXCEPT ![c] = error]
    /\ IF ~ShouldRetry(error, attempt[c])
       THEN /\ promises' = [promises EXCEPT ![c][attempt[c]] = [st |-> "rejected", err |-> error]]
            /\ OuterCatch(c, error)
            /\ UNCHANGED <<retryHistory, slept>>
       ELSE LET delay == RetryDelay(error, attempt[c], jit)
            IN  /\ retryHistory' = HistoryAfterUpdate(key[c],
                        [attempt |-> attempt[c], error |-> error, delay |-> delay])
                /\ slept' = [slept EXCEPT ![c] = delay]
                /\ rpc' = [rpc EXCEPT ![c] = "sleep"]
                /\ UNCHANGED <<promises, attempt, retryLocks, awaiting, result>>
    /\ UNCHANGED <<maxRetries, key, invocations, plan>>

\* The operation of a call returns on this invocation.
OperationReturns(c) ==
    /\ rpc[c] = "operation"
    /\ plan[c].kind = "operation"
    /\ ~plan[c].always /\ invocations[c] > plan[c].fails
    /\ Succeed(c)
    /\ UNCHANGED <<poolVars, crawlerVars, headerVars, errorVars, pipelineVars, pureVars, flowVars>>

\* The operation of a call throws on this invocation.
OperationThrows(c, jit) ==
    /\ rpc[c] = "operation"
    /\ plan[c].kind = "operation"
    /\ plan[c].always \/ invocations[c] <= plan[c].fails
    /\ Fail(c, ThrownError(plan[c], c, invocations[c]), jit)
    /\ UNCHANGED <<poolVars, crawlerVars, headerVars, errorVars, pipelineVars, pureVars, flowVars>>

\* this.sleep(delay) is over: the body of currentLock rethrows the error,
\* currentLock is rejected and `await currentLock` throws it to the outer catch.
SleepDone(c) ==
    /\ rpc[c] = "sleep"
    /\ ~JobsPending
    /\ promises' = [promises EXCEPT ![c][attempt[c]] = [st |-> "rejected", err |-> lastError[c]]]
    /\ OuterCatch(c, lastError[c])
    /\ UNCHANGED <<maxRetries, retryHistory, key, lastError, invocations, plan, slept>>
    /\ UNCHANGED <<poolVars, crawlerVars, headerVars, errorVars, pipelineVars, pureVars, flowVars>>

(***************************************************************************)
(* Crawler.fetch (client/index.js): the operation fetchWithRetries         *)
(***************************************************************************)

\* The setTimeout of enforceRateLimit fires (at its due time or later):
\* enforceRateLimit ends and the network call is issued.
RateLimitWake(c) ==
    /\ rpc[c] = "operation"
    /\ opStage[c] = "rateWait"
    /\ now >= wakeAt[c]
    /\ ~JobsPending
    /\ RateLimitPass(c)
    /\ UNCHANGED <<concurrency, now, wakeAt>>
    /\ UNCHANGED <<poolVars, retryVars, headerVars, errorVars, pipelineVars, pureVars, flowVars>>

\* `parseInt(response.headers.get('retry-after')) || 60`
RetryAfterOf(header) == IF header = 0 THEN DefaultRetryAfter ELSE header

\* The network call answers with a status: a response that is ok is returned,
\* a 429 throws a RateLimit error, any other status a Network error.  The
\* retry-after header is read of a 429 only.
Respond(c, status, header, jit) ==
    /\ rpc[c] = "operation"
    /\ opStage[c] = "network"
    /\ ~JobsPending
    /\ status = 429 \/ header = 0
    /\ opStage' = [opStage EXCEPT ![c] = "none"]
    /\ IF status = 200
       THEN Succeed(c)
       ELSE IF status = 429
       THEN Fail(c, CreateError("rateLimit", Options(status, RetryAfterOf(header), "unset"),
                                c, invocations[c]), jit)
       ELSE Fail(c, CreateError("network", Options(status, 0, "unset"), c, invocations[c]), jit)
    /\ UNCHANGED <<concurrency, now, lastRequestTime, requestCount, wakeAt, closestGap, sent>>
    /\ UNCHANGED <<poolVars, headerVars, errorVars, pipelineVars, pureVars, flowVars>>

(***************************************************************************)
(* HeaderManager (client/headers.js)                                       *)
(***************************************************************************)
Domains == 1..NumDomains
HCalls == 1..NumHeaderCalls

\* The user-agent strings a configuration may list, in order.
AgentPool == <<"ua0", "ua1", "ua2", "ua3">>

\* DEFAULT_HEADERS, reduced to two of its names.
DefaultHeaders == ("User-Agent" :> "default-ua") @@ ("Accept" :> "text/html")

\* The header objects passed to setCustomHeaders and to setDomainHeaders.
CustomChoices == {("X-Token" :> "t1"), ("X-Token" :> "t2")}
DomainChoices == {("Accept" :> "application/json")}

\* The `duration` arguments of setCustomHeaders (0: null, no expiry).
Ttls == 0..MaxTtl

\* Object.assign(a, b)
Assign(a, b) ==
    [n \in (DOMAIN a) \cup (DOMAIN b) |-> IF n \in DOMAIN b THEN b[n] ELSE a[n]]

\* Map.prototype.clear() that spares the entry of the first key.
ClearedButFirst(m) == [k \in DOMAIN m |-> IF k = 1 THEN m[k] ELSE <<>>]

\* Map.prototype.clear(): no key has an entry.
Cleared(m) == [k \in DOMAIN m |-> <<>>]

\* constructor(config): the user agents are the configured list; the maps
\* are empty.
HeaderManagerInit(u) ==
    /\ userAgents = SubSeq(AgentPool, 1, u)
    /\ customHeaders = [d \in Domains |-> <<>>]
    /\ domainHeaders = [d \in Domains |-> <<>>]
    /\ userAgentIndex = [d \in Domains |-> <<>>]
    /\ headerLocks = [d \in Domains |-> <<>>]
    /\ timers = <<>>
    /\ hpc = [h \in HCalls |-> "idle"]
    /\ hdomain = [h \in HCalls |-> 1]
    /\ hreturn = [h \in HCalls |-> <<>>]
    /\ hjobs = <<>>
    /\ callSeq = [d \in Domains |-> <<>>]
    /\ overrides = [d \in Domains |-> <<>>]
    /\ resetDone = "no"

\* getNextUserAgent(domain) advancing the index by two.
NextIndexSkipping(index) == (index + 2) % Len(userAgents)

\* getNextUserAgent(domain): `index = (index + 1) % this.userAgents.length`.
NextIndex(index) == (index + 1) % Len(userAgents)

\* getNextUserAgent(domain): `this.userAgentIndex.get(domain) || 0`.
CurrentIndex(d) == IF userAgentIndex[d] = <<>> THEN 0 ELSE userAgentIndex[d][1]

\* A composition in which the domain's headers override its custom headers.
BaseHeadersDomainLast(d) ==
    LET withCustom == IF customHeaders[d] # <<>>
                      THEN Assign(DefaultHeaders, customHeaders[d][1])
                      ELSE DefaultHeaders
    IN  IF domainHeaders[d] # <<>> THEN Assign(withCustom, domainHeaders[d][1]) ELSE withCustom

\* The headers the body of getHeaders composes before the rotation.
BaseHeaders(d) ==
    LET withDomain == IF domainHeaders[d] # <<>>
                      THEN Assign(DefaultHeaders, domainHeaders[d][1])
                      ELSE DefaultHeaders
    IN  IF customHeaders[d] # <<>> THEN Assign(withDomain, customHeaders[d][1]) ELSE withDomain

\* The body of the lock of getHeaders: it composes the headers, rotates the
\* user agent when there is more than one, and runs to its end in one job;
\* the promise is set as the domain's lock and returned.
HeadersBody(h, d) ==
    /\ IF Len(userAgents) > 1
       THEN /\ hreturn' = [hreturn EXCEPT ![h] =
                    <<Assign(BaseHeaders(d), "User-Agent" :> userAgents[CurrentIndex(d) + 1])>>]
            /\ userAgentIndex' = [userAgentIndex EXCEPT ![d] = <<NextIndex(CurrentIndex(d))>>]
       ELSE /\ hreturn' = [hreturn EXCEPT ![h] = <<BaseHeaders(d)>>]
            /\ UNCHANGED userAgentIndex
    /\ headerLocks' = [headerLocks EXCEPT ![d] = <<"fulfilled">>]
    /\ hpc' = [hpc EXCEPT ![h] = "done"]

\* getHeaders(domain) from its call to its suspension point or its end: a
\* domain that has a lock makes the call await it, and as every lock is
\* settled when it is set, the continuation is queued at once.
GetHeadersCall(h, d) ==
    /\ hpc[h] = "idle"
    /\ hdomain' = [hdomain EXCEPT ![h] = d]
    /\ callSeq' = [callSeq EXCEPT ![d] = Append(@, h)]
    /\ IF headerLocks[d] # <<>>
       THEN /\ hpc' = [hpc EXCEPT ![h] = "awaitLock"]
            /\ hjobs' = Append(hjobs, h)
            /\ UNCHANGED <<hreturn, userAgentIndex, headerLocks>>
       ELSE /\ HeadersBody(h, d)
            /\ UNCHANGED hjobs
    /\ UNCHANGED resetDone
    /\ UNCHANGED <<userAgents, customHeaders, domainHeaders, timers, overrides>>

\* getHeaders(domain) called on its own; calls and domains are
\* interchangeable: call h is on one of the first h domains.
GetHeaders(h, d) ==
    /\ d <= h
    /\ GetHeadersCall(h, d)
    /\ UNCHANGED <<poolVars, retryVars, crawlerVars, errorVars, pipelineVars, pureVars, flowVars>>

\* Crawler.fetch(url) from its call to `await this.headers.getHeaders(domain)`;
\* a url stands for its domain as well.
FetchCall(c, url) ==
    /\ rpc[c] = "idle"
    /\ url <= c
    /\ url \in Domains
    /\ GetHeadersCall(c, url)
    /\ rpc' = [rpc EXCEPT ![c] = "headers"]
    /\ key' = [key EXCEPT ![c] = url]
    /\ plan' = [plan EXCEPT ![c] = FetchPlan]
    /\ UNCHANGED <<maxRetries, retryHistory, retryLocks, promises, attempt, lastError, awaiting,
                   invocations, result, slept>>
    /\ UNCHANGED <<poolVars, crawlerVars, errorVars, pipelineVars, pureVars, flowVars>>

\* The headers are there: fetch goes on to `withRetries(fetchWithRetries, url)`,
\* which runs to its first await.
FetchResume(c) ==
    /\ rpc[c] = "headers"
    /\ hpc[c] = "done"
    /\ LoopHead(c, key[c], 1)
    /\ UNCHANGED <<maxRetries, retryHistory, promises, key, lastError, invocations, plan,
                   result, slept>>
    /\ UNCHANGED <<poolVars, crawlerVars, headerVars, errorVars, pipelineVars, pureVars, flowVars>>

\* The continuation of getHeaders after `await existingLock`.
ResumeGetHeaders(h) ==
    /\ hjobs # <<>>
    /\ Head(hjobs) = h
    /\ hjobs' = Tail(hjobs)
    /\ HeadersBody(h, hdomain[h])
    /\ UNCHANGED resetDone
    /\ UNCHANGED <<userAgents, customHeaders, domainHeaders, timers, hdomain, callSeq, overrides>>
    /\ UNCHANGED <<poolVars, retryVars, crawlerVars, errorVars, pipelineVars, pureVars, flowVars>>

\* setDomainHeaders(domain, headers): the body of its lock runs at the call.
SetDomainHeaders(d, headers) ==
    /\ domainHeaders' = [domainHeaders EXCEPT ![d] = <<headers>>]
    /\ headerLocks' = [headerLocks EXCEPT ![d] = <<"fulfilled">>]
    /\ UNCHANGED resetDone
    /\ UNCHANGED <<userAgents, customHeaders, userAgentIndex, timers, hpc, hdomain,
                   hreturn, hjobs, callSeq, overrides>>
    /\ UNCHANGED <<poolVars, retryVars, crawlerVars, errorVars, pipelineVars, pureVars, flowVars>>

\* removeDomainHeaders(domain): the body of its lock runs at the call.
RemoveDomainHeaders(d) ==
    /\ domainHeaders' = [domainHeaders EXCEPT ![d] = <<>>]
    /\ headerLocks' = [headerLocks EXCEPT ![d] = <<"fulfilled">>]
    /\ UNCHANGED resetDone
    /\ UNCHANGED <<userAgents, customHeaders, userAgentIndex, timers, hpc, hdomain,
                   hreturn, hjobs, callSeq, overrides>>
    /\ UNCHANGED <<poolVars, retryVars, crawlerVars, errorVars, pipelineVars, pureVars, flowVars>>

\* setCustomHeaders(domain, headers, duration): the body of its lock runs at
\* the call; a duration that is not null schedules the deletion.
SetCustomHeaders(d, headers, duration) ==
    /\ duration = 0 \/ Len(timers) < MaxTimers
    /\ customHeaders' = [customHeaders EXCEPT ![d] = <<headers>>]
    /\ timers' = IF duration # 0
                 THEN Append(timers, [domain |-> d, due |-> now + duration])
                 ELSE timers
    /\ headerLocks' = [headerLocks EXCEPT ![d] = <<"fulfilled">>]
    /\ overrides' = [overrides EXCEPT ![d] =
            <<[headers |-> headers, due |-> IF duration # 0 THEN now + duration ELSE 0]>>]
    /\ UNCHANGED resetDone
    /\ UNCHANGED <<userAgents, domainHeaders, userAgentIndex, hpc, hdomain,
                   hreturn, hjobs, callSeq>>
    /\ UNCHANGED <<poolVars, retryVars, crawlerVars, errorVars, pipelineVars, pureVars, flowVars>>

\* Timers fire in the order of their due times, and in the order they were
\* set when due together.
FirstDue(i) ==
    /\ timers[i].due <= now
    /\ \A j \in 1..Len(timers) :
          \/ timers[j].due > timers[i].due
          \/ (timers[j].due = timers[i].due /\ j >= i)

\* The setTimeout callback of setCustomHeaders: `this.customHeaders.delete(domain)`.
ExpireCustomHeaders(i) ==
    /\ i \in 1..Len(timers)
    /\ FirstDue(i)
    /\ hjobs = <<>>
    /\ ~JobsPending
    /\ customHeaders' = [customHeaders EXCEPT ![timers[i].domain] = <<>>]
    /\ timers' = RemoveAt(timers, i)
    /\ UNCHANGED resetDone
    /\ UNCHANGED <<userAgents, domainHeaders, userAgentIndex, headerLocks, hpc, hdomain,
                   hreturn, hjobs, callSeq, overrides>>
    /\ UNCHANGED <<poolVars, retryVars, crawlerVars, errorVars, pipelineVars, pureVars, flowVars>>

\* No timer of setCustomHeaders is due: a due callback runs within its
\* millisecond.
NoTimerDue == \A i \in 1..Len(timers) : timers[i].due > now

\* A millisecond passes: no job is queued and no timer is due.
Tick ==
    /\ now < MaxTime
    /\ ~JobsPending
    /\ hjobs = <<>>
    /\ NoTimerDue
    /\ now' = now + 1
    /\ UNCHANGED <<concurrency, lastRequestTime, requestCount, opStage, wakeAt, closestGap, sent>>
    /\ UNCHANGED <<poolVars, retryVars, headerVars, errorVars, pipelineVars, pureVars, flowVars>>

\* Some per-key, per-domain or counter state of every part of the crawler is
\* there to be cleared.
Populated ==
    /\ requestCount > 0
    /\ lastRequestTime > 0
    /\ \E k \in Keys : retryHistory[k] # <<>>
    /\ \E k \in Keys : retryLocks[k] # <<>>
    /\ \E d \in Domains : customHeaders[d] # <<>>
    /\ \E d \in Domains : domainHeaders[d] # <<>>
    /\ \E d \in Domains : userAgentIndex[d] # <<>>
    /\ \E d \in Domains : headerLocks[d] # <<>>

\* Crawler.reset(): the counters are zeroed, retryManager.clearHistory()
\* clears the histories and the locks, headers.reset() clears the four maps
\* of the header manager.  Calls in flight and timers are left as they are.
Reset ==
    /\ requestCount' = 0
    /\ lastRequestTime' = 0
    /\ retryHistory' = Cleared(retryHistory)
    /\ retryLocks' = Cleared(retryLocks)
    /\ customHeaders' = Cleared(customHeaders)
    /\ domainHeaders' = Cleared(domainHeaders)
    /\ userAgentIndex' = Cleared(userAgentIndex)
    /\ headerLocks' = Cleared(headerLocks)
    /\ resetDone' = IF Populated THEN "populated" ELSE "trivial"
    /\ UNCHANGED <<concurrency, now, opStage, wakeAt, closestGap, sent>>
    /\ UNCHANGED <<maxRetries, promises, rpc, key, attempt, lastError, awaiting, invocations,
                   plan, result, slept>>
    /\ overrides' = Cleared(overrides)
    /\ UNCHANGED <<userAgents, timers, hpc, hdomain, hreturn, hjobs, callSeq>>
    /\ UNCHANGED <<poolVars, errorVars, pipelineVars, pureVars, flowVars>>

\* The delay of a retry is recorded and slept and steers nothing else in
\* withRetries: NextRetry and NextFetch take Math.random() = 0.5 (no jitter).
NextRetry ==
    \/ \E c \in Calls, k \in Keys, pl \in Plans : WithRetries(c, k, pl)
    \/ \E c \in Calls : AwaitLockDone(c)
    \/ \E c \in Calls : OperationReturns(c)
    \/ \E c \in Calls : OperationThrows(c, 0)
    \/ \E c \in Calls : SleepDone(c)

\* Concurrent withRetries calls, numbered in the order they are made.
NextOrdered ==
    \/ \E c \in Calls, k \in Keys, pl \in Plans : WithRetriesInOrder(c, k, pl)
    \/ \E c \in Calls : AwaitLockDone(c)
    \/ \E c \in Calls : OperationReturns(c)
    \/ \E c \in Calls : OperationThrows(c, 0)
    \/ \E c \in Calls : SleepDone(c)

\* withRetries calls made one after the other, with every kind of operation
\* and of jitter.
NextSequential ==
    \/ \E c \in Calls, k \in Keys, pl \in AllPlans : WithRetriesAlone(c, k, pl)
    \/ \E c \in Calls : AwaitLockDone(c)
    \/ \E c \in Calls : OperationReturns(c)
    \/ \E c \in Calls, jit \in JitterHalves : OperationThrows(c, jit)
    \/ \E c \in Calls : SleepDone(c)

\* getHeaders calls, with setDomainHeaders and removeDomainHeaders calls
\* among them.
NextRotation ==
    \/ \E h \in HCalls, d \in Domains : GetHeaders(h, d)
    \/ \E h \in HCalls : ResumeGetHeaders(h)
    \/ \E d \in Domains, headers \in DomainChoices : SetDomainHeaders(d, headers)
    \/ \E d \in Domains : RemoveDomainHeaders(d)

\* Headers that define the same names as each other and as the defaults.
OverlappingDomainChoices ==
    {("Accept" :> "application/json"),
     ("Accept" :> "application/json") @@ ("User-Agent" :> "domain-ua") @@ ("X-Token" :> "d")}
OverlappingCustomChoices ==
    {("X-Token" :> "t1"),
     ("User-Agent" :> "custom-ua") @@ ("Accept" :> "application/xml")}

\* Two getHeaders calls among setDomainHeaders and setCustomHeaders calls
\* (without duration) on two domains.
NextCompose ==
    \/ \E h \in {1, 2}, d \in {1, 2} : GetHeaders(h, d)
    \/ \E h \in {1, 2} : ResumeGetHeaders(h)
    \/ \E d \in {1, 2}, headers \in OverlappingDomainChoices : SetDomainHeaders(d, headers)
    \/ \E d \in {1, 2}, headers \in OverlappingCustomChoices : SetCustomHeaders(d, headers, 0)

\* getHeaders and setCustomHeaders calls on one domain as time passes.
NextHeaders ==
    \/ \E h \in HCalls, d \in {1} : GetHeaders(h, d)
    \/ \E h \in HCalls : ResumeGetHeaders(h)
    \/ \E d \in {1}, headers \in CustomChoices, duration \in Ttls :
            SetCustomHeaders(d, headers, duration)
    \/ \E i \in 1..MaxTimers : ExpireCustomHeaders(i)
    \/ Tick

\* One fetch, header operations on one domain and reset() calls, within one
\* millisecond.
NextReset ==
    \/ \E c \in {1}, url \in Keys : Fetch(c, url)
    \/ \E c \in Calls : AwaitLockDone(c)
    \/ \E c \in Calls, status \in Statuses, header \in RetryAfterHeaders :
            Respond(c, status, header, 0)
    \/ \E c \in Calls : SleepDone(c)
    \/ \E h \in {1}, d \in {1} : GetHeaders(h, d)
    \/ \E h \in HCalls : ResumeGetHeaders(h)
    \/ \E d \in {1}, headers \in DomainChoices : SetDomainHeaders(d, headers)
    \/ \E d \in {1}, headers \in CustomChoices : SetCustomHeaders(d, headers, 0)
    \/ Reset

\* Two fetches with their header stage, on one or two domains, with
\* setDomainHeaders calls among them, as time passes.
NextFetchHeaders ==
    \/ \E c \in {1, 2}, url \in {1, 2} : FetchCall(c, url)
    \/ \E h \in {1, 2} : ResumeGetHeaders(h)
    \/ \E c \in {1, 2} : FetchResume(c)
    \/ \E c \in {1, 2} : AwaitLockDone(c)
    \/ \E c \in {1, 2} : RateLimitWake(c)
    \/ \E c \in {1, 2}, status \in Statuses : Respond(c, status, 0, 0)
    \/ \E c \in {1, 2} : SleepDone(c)
    \/ \E d \in {1, 2}, headers \in DomainChoices : SetDomainHeaders(d, headers)
    \/ Tick

NextFetch ==
    \/ \E c \in Calls, url \in Keys : Fetch(c, url)
    \/ \E c \in Calls : AwaitLockDone(c)
    \/ \E c \in Calls : RateLimitWake(c)
    \/ \E c \in Calls, status \in Statuses, header \in RetryAfterHeaders :
            Respond(c, status, header, 0)
    \/ \E c \in Calls : SleepDone(c)
    \/ Tick

(***************************************************************************)
(* ErrorFactory, executePipeline's catch and calculateDelay, applied to     *)
(* drawn inputs                                                            *)
(***************************************************************************)

\* The `type` argument of createError ("other": a type errorMap does not
\* hold), and options.retryable as the caller passes it.
ErrorTypes == {"network", "rateLimit", "parse", "validation", "pipeline", "queue", "other"}
RetryableOptions == {"unset", "yes", "no"}

\* `code` and `type` of an untyped error ("": undefined).
RawCodes == {"", "ECONNRESET", "ECONNREFUSED", "ETIMEDOUT", "ENOTFOUND"}
RawTypes == {"", "request-timeout", "system"}

\* Retry configurations: the default one and two that options override.
RetryConfigs ==
    {DefaultRetryConfig,
     [initialDelay |-> 1000, maxDelay |-> 1000, backoffFactor |-> 1],
     [initialDelay |-> 100, maxDelay |-> 2500, backoffFactor |-> 3]}

\* What an error is built from: createError(type, message, {retryable}) or an
\* untyped error with a code and a type; and the config of the manager.
ErrorInputs ==
    {[typed |-> TRUE, type |-> t, retryable |-> r, code |-> "", rtype |-> "", cfg |-> g] :
        t \in ErrorTypes, r \in RetryableOptions, g \in RetryConfigs}
    \cup {[typed |-> FALSE, type |-> "", retryable |-> "unset", code |-> c, rtype |-> y, cfg |-> g] :
        c \in RawCodes, y \in RawTypes, g \in RetryConfigs}

ErrorsInit(in) ==
    /\ errorInput = in
    /\ builtError = NoError
    /\ pipelineError = NoError
    /\ verdict = <<>>
    /\ delays = <<>>

\* The error is constructed: ErrorFactory.createError(type, message, options),
\* or an untyped error is thrown by a library.
BuildError ==
    /\ builtError = NoError
    /\ builtError' =
            IF errorInput.typed
            THEN CreateError(errorInput.type, Options(0, 5, errorInput.retryable), 0, 1)
            ELSE RawError(errorInput.code, errorInput.rtype, 0, 1)
    /\ UNCHANGED <<errorInput, pipelineError, verdict, delays>>
    /\ UNCHANGED <<poolVars, retryVars, crawlerVars, headerVars, pipelineVars, pureVars, flowVars>>

\* isRetryableError(error), and shouldRetry(error, attempt) for every attempt.
Classify ==
    /\ builtError # NoError
    /\ verdict = <<>>
    /\ verdict' = <<IsRetryableError(builtError),
                    [att \in Attempts |-> ShouldRetry(builtError, att)]>>
    /\ UNCHANGED <<errorInput, builtError, pipelineError, delays>>
    /\ UNCHANGED <<poolVars, retryVars, crawlerVars, headerVars, pipelineVars, pureVars, flowVars>>

\* The catch of executePipeline for a middleware or pipeline that threw the
\* error: createError('pipeline', message, {pipelineId, originalError}).
ExecutePipelineCatch ==
    /\ builtError # NoError
    /\ pipelineError = NoError
    /\ pipelineError' = CreateError("pipeline", Options(0, 0, "unset"), 0, 2)
    /\ UNCHANGED <<errorInput, builtError, verdict, delays>>
    /\ UNCHANGED <<poolVars, retryVars, crawlerVars, headerVars, pipelineVars, pureVars, flowVars>>

\* calculateDelay(attempt) for the next attempt, Math.random() being 0.5.
NextDelay ==
    /\ Len(delays) < MaxDelayAttempts
    /\ delays' = Append(delays, BackoffDelay(errorInput.cfg, Len(delays) + 1, 0))
    /\ UNCHANGED <<errorInput, builtError, pipelineError, verdict>>
    /\ UNCHANGED <<poolVars, retryVars, crawlerVars, headerVars, pipelineVars, pureVars, flowVars>>

NextErrors ==
    \/ BuildError
    \/ Classify
    \/ ExecutePipelineCatch
    \/ NextDelay

(***************************************************************************)
(* Crawler pipelines (client/index.js): addPipeline, use, executePipeline  *)
(***************************************************************************)

\* The names pipelines are registered and executed under.
PipelineNames == {"p", "q"}

\* The pipeline functions of the model: one returns the context it was given,
\* one returns a value of its own, one throws.
PipelineFns == {"echo", "const", "throw"}

\* The middleware functions of the model: one returns nothing, one returns the
\* context it was given with a field added ({...ctx, seen}), one returns a new
\* context that holds nothing but that field ({seen}), one throws.
MiddlewareFns == {"keep", "extend", "fresh", "throw"}

\* `this`, the executing crawler, as the value of a context's crawler field.
This == "this"

\* The contexts callers pass: {x: 1}, and {x: 1, crawler: other} with a
\* crawler field of the caller's own.
CallerContexts == {("x" :> "1"), ("x" :> "1") @@ ("crawler" :> "other")}

\* A value of an error's options or metadata: a string, an error, undefined.
NoCause == [name |-> "", message |-> "", by |-> -1]
Undefined == [kind |-> "undefined", str |-> "", err |-> NoCause]
Str(s) == [kind |-> "string", str |-> s, err |-> NoCause]
ErrVal(e) == [kind |-> "error", str |-> "", err |-> e]

\* options[k], undefined when the options hold no such field.
Get(options, k) == IF k \in DOMAIN options THEN options[k] ELSE Undefined

\* The error a middleware (by: its place in the list) or the pipeline (by: 0) throws.
Cause(by) == [name |-> "Error", message |-> "boom", by |-> by]

\* PipelineError constructor: metadata = {...options.metadata, stage:
\* options.stage, pipelineId: options.pipelineId}; neither call of
\* createError('pipeline', ...) in executePipeline passes options.metadata.
PipelineMetadata(options) ==
    ("stage" :> Get(options, "stage")) @@ ("pipelineId" :> Get(options, "pipelineId"))

\* createError('pipeline', message, options): a PipelineError, of which
\* CrawlerError keeps message, url, statusCode, retryable and metadata.
PipelineErrorOf(message, options) ==
    [name |-> "PipelineError",
     message |-> message,
     retryable |-> CrawlerErrorRetryable(Options(0, 0, "unset")),
     metadata |-> PipelineMetadata(options)]

\* constructor: this.pipelines = new Map(), this.middleware = [].
PipelinesInit ==
    /\ pipelines = [n \in PipelineNames |-> <<>>]
    /\ middleware = <<>>
    /\ pstate = "idle"
    /\ pname = ""
    /\ pcontext = <<>>
    /\ pfn = <<>>
    /\ currentContext = <<>>
    /\ ppos = 0
    /\ invoked = <<>>
    /\ preturn = <<>>
    /\ pthrown = <<>>
    /\ phistory = <<>>

\* addPipeline(name, pipeline), pipeline being a function.
AddPipeline(name, fn) ==
    /\ name \in PipelineNames /\ fn \in PipelineFns
    /\ pipelines' = [pipelines EXCEPT ![name] = <<fn>>]
    /\ UNCHANGED <<middleware, pstate, pname, pcontext, pfn, currentContext, ppos, invoked, preturn, pthrown, phistory>>
    /\ UNCHANGED <<poolVars, retryVars, crawlerVars, headerVars, errorVars, pureVars, flowVars>>

\* use(middleware), middleware being a function.
Use(mw) ==
    /\ mw \in MiddlewareFns
    /\ Len(middleware) < MaxMiddleware
    /\ middleware' = Append(middleware, mw)
    /\ UNCHANGED <<pipelines, pstate, pname, pcontext, pfn, currentContext, ppos, invoked, preturn, pthrown, phistory>>
    /\ UNCHANGED <<poolVars, retryVars, crawlerVars, headerVars, errorVars, pureVars, flowVars>>

\* `this.pipelines.get(name)` taking any registered pipeline when the name is
\* not registered.
LookupAny(name) ==
    IF pipelines[name] # <<>>
    THEN pipelines[name]
    ELSE IF \E n \in PipelineNames : pipelines[n] # <<>>
    THEN pipelines[CHOOSE n \in PipelineNames : pipelines[n] # <<>>]
    ELSE <<>>

\* `this.pipelines.get(name)`: <<>> stands for undefined.
Lookup(name) == pipelines[name]

\* The base context that lets the caller's own crawler field win.
BaseContextCallerWins(context) == Assign(("crawler" :> This), context)

\* `{...context, crawler: this}`
BaseContext(context) == Assign(context, ("crawler" :> This))

\* What a middleware returns for the context it is given: <<>> for undefined.
MiddlewareResult(mw, ctx) ==
    CASE mw = "keep" -> <<>>
      [] mw = "extend" -> <<Assign(ctx, ("seen" :> "yes"))>>
      [] mw = "fresh" -> <<("seen" :> "yes")>>

\* The loop body merging the result into the current context.
AfterMiddlewareMerging(cur, res) == IF res # <<>> THEN Assign(cur, res[1]) ELSE cur

\* `if (result) { currentContext = result; }`
AfterMiddleware(cur, res) == IF res # <<>> THEN res[1] ELSE cur

\* What a pipeline function returns for the context it is given.
PipelineValue(fn, ctx) ==
    CASE fn = "echo" -> ctx
      [] fn = "const" -> ("value" :> "done")

\* The next step of executePipeline after `pos` middleware have run, with
\* context cur: the loop over this.middleware invokes the next middleware and
\* suspends at `await middleware(currentContext)`; past the end of the list
\* the pipeline is invoked and the call suspends at `await pipeline(...)`.
InvokeNextFrom(log, fn, cur, pos) ==
    /\ currentContext' = cur
    /\ IF pos < Len(middleware)
       THEN /\ invoked' = Append(log, [step |-> pos + 1, fn |-> middleware[pos + 1], ctx |-> cur])
            /\ ppos' = pos + 1
            /\ pstate' = "middleware"
       ELSE /\ invoked' = Append(log, [step |-> 0, fn |-> fn, ctx |-> cur])
            /\ ppos' = pos
            /\ pstate' = "pipeline"

InvokeNext(fn, cur, pos) == InvokeNextFrom(invoked, fn, cur, pos)

\* The catch of executePipeline: the error is wrapped by
\* createError('pipeline', message, {pipelineId: name, originalError: error}).
Catch(error) ==
    /\ pthrown' = <<PipelineErrorOf(<<"Pipeline", pname, "failed", error.message>>,
                                    ("pipelineId" :> Str(pname)) @@ ("originalError" :> ErrVal(error)))>>
    /\ pstate' = "thrown"

\* The loop of a call taken up behind the middleware the call before it
\* reached last.
LoopStartResumed == IF ppos > 0 THEN ppos - 1 ELSE 0

\* `for (const middleware of this.middleware)`: the loop of every call starts
\* at the head of the list.
LoopStart == 0

\* executePipeline(name, context), from the call to its first suspension
\* point: an unregistered name throws; otherwise the base context is built
\* and the first middleware, or with none the pipeline, is invoked.
ExecutePipeline(name, context) ==
    /\ name \in PipelineNames /\ context \in CallerContexts
    /\ pstate = "idle"
    /\ pname' = name
    /\ pcontext' = context
    /\ IF Lookup(name) = <<>>
       THEN /\ pthrown' = <<PipelineErrorOf(<<"Pipeline", name, "not found">>, <<>>)>>
            /\ pstate' = "thrown"
            /\ UNCHANGED <<pfn, currentContext, ppos, invoked>>
       ELSE /\ pfn' = Lookup(name)
            /\ InvokeNext(Lookup(name)[1], BaseContext(context), LoopStart)
            /\ UNCHANGED pthrown
    /\ UNCHANGED <<pipelines, middleware, preturn, phistory>>
    /\ UNCHANGED <<poolVars, retryVars, crawlerVars, headerVars, errorVars, pureVars, flowVars>>

\* executePipeline(name, context) called after an earlier call has returned or
\* thrown, from the call to its first suspension point.  What the earlier call
\* invoked is kept aside; the locals of the new call start afresh.
ExecutePipelineAfter(name, context) ==
    /\ name \in PipelineNames /\ context \in CallerContexts
    /\ pstate \in {"returned", "thrown"}
    /\ Len(phistory) < MaxExecutions - 1
    /\ phistory' = Append(phistory, [invoked |-> invoked, ended |-> pstate])
    /\ pname' = name
    /\ pcontext' = context
    /\ preturn' = <<>>
    /\ IF Lookup(name) = <<>>
       THEN /\ pthrown' = <<PipelineErrorOf(<<"Pipeline", name, "not found">>, <<>>)>>
            /\ pstate' = "thrown"
            /\ invoked' = <<>>
            /\ pfn' = <<>>
            /\ ppos' = 0
            /\ currentContext' = <<>>
       ELSE /\ pfn' = Lookup(name)
            /\ InvokeNextFrom(<<>>, Lookup(name)[1], BaseContext(context), LoopStart)
            /\ pthrown' = <<>>
    /\ UNCHANGED <<pipelines, middleware>>
    /\ UNCHANGED <<poolVars, retryVars, crawlerVars, headerVars, errorVars, pureVars, flowVars>>

\* The middleware awaited settles: if it threw, the catch wraps the error;
\* otherwise a result that is truthy replaces the current context, and the
\* loop goes on with the list as it is now.
MiddlewareSettles ==
    /\ pstate = "middleware"
    /\ IF middleware[ppos] = "throw"
       THEN /\ Catch(Cause(ppos))
            /\ UNCHANGED <<currentContext, ppos, invoked>>
       ELSE /\ InvokeNext(pfn[1],
                          AfterMiddleware(currentContext,
                                          MiddlewareResult(middleware[ppos], currentContext)),
                          ppos)
            /\ UNCHANGED pthrown
    /\ UNCHANGED <<pipelines, middleware, pname, pcontext, pfn, preturn, phistory>>
    /\ UNCHANGED <<poolVars, retryVars, crawlerVars, headerVars, errorVars, pureVars, flowVars>>

\* The pipeline awaited settles: its value is returned, or the catch wraps
\* the error it threw.
PipelineSettles ==
    /\ pstate = "pipeline"
    /\ IF pfn[1] = "throw"
       THEN /\ Catch(Cause(0))
            /\ UNCHANGED preturn
       ELSE /\ preturn' = <<PipelineValue(pfn[1], currentContext)>>
            /\ pstate' = "returned"
            /\ UNCHANGED pthrown
    /\ UNCHANGED <<pipelines, middleware, pname, pcontext, pfn, currentContext, ppos, invoked, phistory>>
    /\ UNCHANGED <<poolVars, retryVars, crawlerVars, headerVars, errorVars, pureVars, flowVars>>

NextPipeline ==
    \/ \E name \in PipelineNames, fn \in PipelineFns : AddPipeline(name, fn)
    \/ \E mw \in MiddlewareFns : Use(mw)
    \/ \E name \in PipelineNames, context \in CallerContexts : ExecutePipeline(name, context)
    \/ MiddlewareSettles
    \/ PipelineSettles

\* executePipeline calls one after the other, on one name, with middleware
\* that return nothing or throw.
NextRerun ==
    \/ \E name \in {"p"}, fn \in PipelineFns : AddPipeline(name, fn)
    \/ \E mw \in {"keep", "throw"} : Use(mw)
    \/ \E name \in {"p"}, context \in {("x" :> "1")} : ExecutePipeline(name, context)
    \/ \E name \in {"p"}, context \in {("x" :> "1")} : ExecutePipelineAfter(name, context)
    \/ MiddlewareSettles
    \/ PipelineSettles

(***************************************************************************)
(* Crawler.extract (client/index.js), applied to drawn selectors           *)
(***************************************************************************)

\* Strings are sequences of characters where the code reads them character
\* by character (trim, parseInt).
Whitespace == {" ", "\t", "\n"}

RECURSIVE TrimStart(_)
TrimStart(s) == IF s # <<>> /\ Head(s) \in Whitespace THEN TrimStart(Tail(s)) ELSE s

RECURSIVE TrimEnd(_)
TrimEnd(s) ==
    IF s # <<>> /\ s[Len(s)] \in Whitespace THEN TrimEnd(SubSeq(s, 1, Len(s) - 1)) ELSE s

\* String.prototype.trim()
Trim(s) == TrimEnd(TrimStart(s))

\* The document: <h1> Case A\n</h1> and two <li>, " one" and "two "; no
\* element of class nope.  `$(selector)` gives the texts of the elements the
\* selector matches, in document order.
Matches(sel) ==
    CASE sel = "h1" -> << <<" ", "C", "a", "s", "e", " ", "A", "\n">> >>
      [] sel = "li" -> << <<" ", "o", "n", "e">>, <<"t", "w", "o", " ">> >>
      [] OTHER -> <<>>

\* The selectors of the model: strings that match one element, two, none, a
\* string that is no selector (cheerio throws a SyntaxError), and callbacks
\* that return a value, throw an Error, or throw null.
Selectors ==
    {[kind |-> "string", sel |-> s] : s \in {"h1", "li", ".nope", "h1["}}
    \cup {[kind |-> "function", sel |-> f] : f \in {"returns", "throwsError", "throwsNull"}}

\* The keys of the selectors object, in the order Object.entries lists them.
KeyNames == <<"title", "missing", "items", "extra", "more", "last">>

\* The values extract stores under a key.
Null == [kind |-> "null", text |-> <<>>, list |-> <<>>]
Text(t) == [kind |-> "text", text |-> t, list |-> <<>>]
List(l) == [kind |-> "list", text |-> <<>>, list |-> l]
CallbackValue == [kind |-> "value", text |-> <<>>, list |-> <<>>]

\* The try block for one selector: the value stored, or what is thrown
\* ("error": an Error object, "null": the value null).
Evaluate(selector) ==
    IF selector.kind = "function"
    THEN CASE selector.sel = "returns" -> [threw |-> "", value |-> CallbackValue]
           [] selector.sel = "throwsError" -> [threw |-> "error", value |-> Null]
           [] selector.sel = "throwsNull" -> [threw |-> "null", value |-> Null]
    ELSE IF selector.sel = "h1["
    THEN [threw |-> "error", value |-> Null]
    ELSE LET elements == Matches(selector.sel)
         IN  [threw |-> "",
              value |-> IF Len(elements) = 1
                        THEN Text(Trim(elements[1]))
                        ELSE List([i \in 1..Len(elements) |-> Trim(elements[i])])]

\* The catch block reads `error.message` for the log entry: of null it throws
\* a TypeError, which leaves extract.
CatchCompletes(threw) == threw # "null"

\* The loop of extract from entry i on, res being `result` so far.
RECURSIVE ExtractFrom(_, _, _)
ExtractFrom(entries, i, res) ==
    IF i > Len(entries)
    THEN [threw |-> FALSE, result |-> res]
    ELSE LET ev == Evaluate(entries[i].selector)
         IN  IF ev.threw = ""
             THEN ExtractFrom(entries, i + 1, Assign(res, entries[i].key :> ev.value))
             ELSE IF CatchCompletes(ev.threw)
             THEN ExtractFrom(entries, i + 1, Assign(res, entries[i].key :> Null))
             ELSE [threw |-> TRUE, result |-> res]

\* The selectors objects of the model: 1..MaxSelectors entries.
SelectorObjects ==
    UNION {[1..n -> Selectors] : n \in 1..MaxSelectors}

Entries(o) == [i \in 1..Len(o) |-> [key |-> KeyNames[i], selector |-> o[i]]]

\* extract($, selectors)
Extract ==
    /\ extracted = <<>>
    /\ extracted' = <<ExtractFrom(selectors, 1, <<>>)>>
    /\ UNCHANGED <<selectors, response, outcome>>
    /\ UNCHANGED <<poolVars, retryVars, crawlerVars, headerVars, errorVars, pipelineVars, flowVars>>

NextExtract == Extract

(***************************************************************************)
(* Crawler.fetch (client/index.js): the handling of the response, applied   *)
(* to drawn responses                                                      *)
(***************************************************************************)

\* The statuses and retry-after headers of the model; <<>>: the response has
\* no such header (headers.get returns null).
ResponseStatuses == {200, 204, 304, 404, 429, 500, 503}
ResponseHeaders ==
    {<<>>, << <<"0">> >>, << <<"5">> >>, << <<"1", "2">> >>, << <<" ", "7">> >>,
     << <<"3", "s">> >>, << <<"W", "e", "d">> >>, << <<"-", "4">> >>}

Responses == [status : ResponseStatuses, header : ResponseHeaders]

DigitValue ==
    ("0" :> 0) @@ ("1" :> 1) @@ ("2" :> 2) @@ ("3" :> 3) @@ ("4" :> 4) @@
    ("5" :> 5) @@ ("6" :> 6) @@ ("7" :> 7) @@ ("8" :> 8) @@ ("9" :> 9)

\* The longest run of digits a string starts with.
RECURSIVE LeadingDigits(_)
LeadingDigits(s) ==
    IF s # <<>> /\ Head(s) \in DOMAIN DigitValue
    THEN <<Head(s)>> \o LeadingDigits(Tail(s))
    ELSE <<>>

RECURSIVE Decimal(_)
Decimal(ds) ==
    IF ds = <<>> THEN 0 ELSE 10 * Decimal(SubSeq(ds, 1, Len(ds) - 1)) + DigitValue[ds[Len(ds)]]

\* parseInt(string): leading whitespace is skipped, a sign is read, then the
\* digits up to the first character that is none; <<>> stands for NaN.
ParseInt(s) ==
    LET t == TrimStart(s)
        signed == t # <<>> /\ Head(t) \in {"-", "+"}
        ds == LeadingDigits(IF signed THEN Tail(t) ELSE t)
    IN  IF ds = <<>>
        THEN <<>>
        ELSE IF signed /\ Head(t) = "-" THEN <<0 - Decimal(ds)>> ELSE <<Decimal(ds)>>

\* `parseInt(response.headers.get('retry-after')) || 60`: parseInt(null) is
\* NaN, and NaN and 0 are falsy.
RetryAfter(header) ==
    LET n == IF header = <<>> THEN <<>> ELSE ParseInt(header[1])
    IN  IF n = <<>> \/ n = <<0>> THEN DefaultRetryAfter ELSE n[1]

\* `response.ok`
Ok(status) == status >= 200 /\ status <= 299

\* fetchWithRetries after the network call: what it returns or throws.
HandleResponse ==
    /\ outcome = <<>>
    /\ outcome' =
         IF Ok(response.status)
         THEN <<[kind |-> "returned", error |-> NoError]>>
         ELSE IF response.status = 429
         THEN <<[kind |-> "thrown",
                 error |-> CreateError("rateLimit",
                              Options(response.status, RetryAfter(response.header), "unset"), 0, 1)]>>
         ELSE <<[kind |-> "thrown",
                 error |-> CreateError("network", Options(response.status, 0, "unset"), 0, 1)]>>
    /\ UNCHANGED <<selectors, extracted, response>>
    /\ UNCHANGED <<poolVars, retryVars, crawlerVars, headerVars, errorVars, pipelineVars, flowVars>>

NextResponse == HandleResponse

\* The inputs extract and the response handling are given where they are not
\* what is checked.
PureInit(o, r) ==
    /\ selectors = Entries(o)
    /\ extracted = <<>>
    /\ response = r
    /\ outcome = <<>>

DefaultSelectors == <<[kind |-> "string", sel |-> "h1"]>>
DefaultResponse == [status |-> 200, header |-> <<>>]

(***************************************************************************)
(* CaseLawContentExtractor (flows/caselaw_contentextraction.js)            *)
(***************************************************************************)
Cases == 1..NumCases

\* The variables of a ConcurrencyPool model that the flows, which drive the
\* pool themselves, leave alone; and the parts of the crawler they do not touch.
poolCallers == <<jobs, pc, fullSeq, incs, decs, drainSeen>>
clientVars == <<retryVars, crawlerVars, headerVars, errorVars, pipelineVars, pureVars>>

\* constructor(crawler) and the `cases` argument of execute: the counters are
\* 0, no case is being processed.
ExtractionInit(n) ==
    /\ inputCases = n
    /\ xstate = "loop"
    /\ batchIndex = 0
    /\ xpc = [c \in Cases |-> "idle"]
    /\ savedToFileCount = 0
    /\ processedCount = 0
    /\ failedCount = 0
    /\ written = <<>>
    /\ xreturn = <<>>

\* `const batchSize = this.pool.size * 2`
BatchSize == size * 2

\* A slice that leaves out the last case of every full batch.
BatchShort(i) == {c \in 1..inputCases : i < c /\ c < i + BatchSize}

\* `cases.slice(i, i + batchSize)`
Batch(i) == {c \in 1..inputCases : i < c /\ c <= i + BatchSize}

\* The slots of the pool that add() finds free.
FreeSlots == IF running < size THEN size - running ELSE 0

\* The loop of execute at `i < cases.length`: processBatch maps the batch to
\* processCase calls, in order and in one job.  pool.add starts the first
\* cases, as many as slots are free: running++ and fn() runs to the await of
\* extractContent; for the others it pushes a resolver and suspends.
StartBatch ==
    /\ xstate = "loop"
    /\ batchIndex < inputCases
    /\ LET n == Cardinality(Batch(batchIndex))
           started == Min(FreeSlots, n)
       IN  /\ running' = running + started
           /\ queue' = queue \o [k \in 1..(n - started) |-> batchIndex + started + k]
           /\ xpc' = [c \in Cases |->
                        IF c \in Batch(batchIndex)
                        THEN IF c <= batchIndex + started THEN "extract" ELSE "queued"
                        ELSE xpc[c]]
    /\ xstate' = "batch"
    /\ UNCHANGED <<inputCases, batchIndex, savedToFileCount, processedCount, failedCount,
                   written, xreturn>>
    /\ UNCHANGED <<size, poolCallers, clientVars, collectionVars>>

\* The loop of execute at `i >= cases.length`: the connection is closed and
\* the totals are returned.
ReturnTotals ==
    /\ xstate = "loop"
    /\ batchIndex >= inputCases
    /\ xstate' = "returned"
    /\ xreturn' = <<[totalProcessed |-> processedCount, totalFailed |-> failedCount,
                     savedToFiles |-> savedToFileCount]>>
    /\ UNCHANGED <<inputCases, batchIndex, xpc, savedToFileCount, processedCount, failedCount,
                   written>>
    /\ UNCHANGED <<poolVars, clientVars, collectionVars>>

\* extractContent throws (the fetch fails, or the page has no article): the
\* catch of processCase counts the case as failed and returns false.
ExtractContentThrows(c) ==
    /\ xpc[c] = "extract"
    /\ failedCount' = failedCount + 1
    /\ xpc' = [xpc EXCEPT ![c] = "settled"]
    /\ UNCHANGED <<inputCases, xstate, batchIndex, savedToFileCount, processedCount, written,
                   xreturn>>
    /\ UNCHANGED <<poolVars, clientVars, collectionVars>>

\* The rest of the try of processCase behind saveToFile: the document is
\* pushed to the batch, the case is counted as processed, true is returned.
Processed(c) ==
    /\ processedCount' = processedCount + 1
    /\ xpc' = [xpc EXCEPT ![c] = "settled"]

\* extractContent returns the markdown.  With savedToFileCount < 3
\* saveToFile is called, passes its own test of the counter and suspends at
\* `await fs.mkdir(...)`; otherwise processCase goes on to its end.
ExtractContentReturns(c) ==
    /\ xpc[c] = "extract"
    /\ IF savedToFileCount < 3
       THEN /\ xpc' = [xpc EXCEPT ![c] = "mkdir"]
            /\ UNCHANGED processedCount
       ELSE Processed(c)
    /\ UNCHANGED <<inputCases, xstate, batchIndex, savedToFileCount, failedCount, written,
                   xreturn>>
    /\ UNCHANGED <<poolVars, clientVars, collectionVars>>

\* fs.mkdir is done: the file name is made of the counter as it is now,
\* `case_${this.savedToFileCount + 1}.md`, and fs.writeFile is called.
MkdirDone(c) ==
    /\ xpc[c] = "mkdir"
    /\ written' = Append(written, savedToFileCount + 1)
    /\ xpc' = [xpc EXCEPT ![c] = "write"]
    /\ UNCHANGED <<inputCases, xstate, batchIndex, savedToFileCount, processedCount,
                   failedCount, xreturn>>
    /\ UNCHANGED <<poolVars, clientVars, collectionVars>>

\* fs.writeFile is done: savedToFileCount++, saveToFile returns and
\* processCase goes on to its end.
WriteFileDone(c) ==
    /\ xpc[c] = "write"
    /\ savedToFileCount' = savedToFileCount + 1
    /\ Processed(c)
    /\ UNCHANGED <<inputCases, xstate, batchIndex, failedCount, written, xreturn>>
    /\ UNCHANGED <<poolVars, clientVars, collectionVars>>

\* The finally of pool.add for a case whose fn has settled: running--, and
\* the resolver at the head of the queue, if there is one, is called: that of
\* a suspended add, or (0) that of the waitForAll of execute, which goes on
\* to the next pass of its loop.
CaseFinally(c) ==
    /\ xpc[c] = "settled"
    /\ running' = running - 1
    /\ IF Len(queue) > 0
       THEN /\ queue' = Tail(queue)
            /\ IF Head(queue) = 0
               THEN /\ xpc' = [xpc EXCEPT ![c] = "finished"]
                    /\ xstate' = "loop"
                    /\ batchIndex' = batchIndex + BatchSize
               ELSE /\ xpc' = [xpc EXCEPT ![c] = "finished", ![Head(queue)] = "woken"]
                    /\ UNCHANGED <<xstate, batchIndex>>
       ELSE /\ xpc' = [xpc EXCEPT ![c] = "finished"]
            /\ UNCHANGED <<queue, xstate, batchIndex>>
    /\ UNCHANGED <<inputCases, savedToFileCount, processedCount, failedCount, written, xreturn>>
    /\ UNCHANGED <<size, poolCallers, clientVars, collectionVars>>

\* A woken add resumes: running++, and fn() runs to the await of
\* extractContent.
CaseResumes(c) ==
    /\ xpc[c] = "woken"
    /\ running' = running + 1
    /\ xpc' = [xpc EXCEPT ![c] = "extract"]
    /\ UNCHANGED <<inputCases, xstate, batchIndex, savedToFileCount, processedCount,
                   failedCount, written, xreturn>>
    /\ UNCHANGED <<size, queue, poolCallers, clientVars, collectionVars>>

\* Every processCase of the batch has returned: processBatch returns, and
\* execute calls pool.waitForAll(), which suspends on the queue of the pool
\* when running > 0; otherwise the pass of the loop ends with `i += batchSize`.
BatchDone ==
    /\ xstate = "batch"
    /\ \A c \in Batch(batchIndex) : xpc[c] = "finished"
    /\ IF running > 0
       THEN /\ queue' = Append(queue, 0)
            /\ xstate' = "drain"
            /\ UNCHANGED batchIndex
       ELSE /\ xstate' = "loop"
            /\ batchIndex' = batchIndex + BatchSize
            /\ UNCHANGED queue
    /\ UNCHANGED <<inputCases, xpc, savedToFileCount, processedCount, failedCount, written,
                   xreturn>>
    /\ UNCHANGED <<size, running, poolCallers, clientVars, collectionVars>>

NextExtraction ==
    \/ StartBatch
    \/ ReturnTotals
    \/ \E c \in Cases : ExtractContentThrows(c)
    \/ \E c \in Cases : ExtractContentReturns(c)
    \/ \E c \in Cases : MkdirDone(c)
    \/ \E c \in Cases : WriteFileDone(c)
    \/ \E c \in Cases : CaseFinally(c)
    \/ \E c \in Cases : CaseResumes(c)
    \/ BatchDone

(***************************************************************************)
(* AusLegalCasesCrawler (flows/caselaw_casecollection.js)                  *)
(***************************************************************************)
Courts == 1..NumCourts

\* What the page of a court for a year is answered with, after the retries
\* of crawler.fetch: its status, and how many cases an ok page lists.
NoPage == [status |-> 0, cases |-> 0]
PageOutcomes ==
    {[status |-> 200, cases |-> 1], [status |-> 200, cases |-> 0],
     [status |-> 500, cases |-> 0], [status |-> 404, cases |-> 0]}

\* constructor(crawler): this.cases = [], this.baseUrls lists the courts;
\* execute starts at currentYear = 2024.
CollectionInit ==
    /\ baseUrls = [k \in 1..NumCourts |-> k]
    /\ currentYear = 0
    /\ collected = {}
    /\ fetchedPages = {}
    /\ ended = {}
    /\ cpc = [u \in Courts |-> "idle"]
    /\ cresult = [u \in Courts |-> NoPage]
    /\ cstate = "loop"
    /\ cthrown = <<>>

FlowsInit == ExtractionInit(0) /\ CollectionInit

\* The catch of processCourt taking every failure for the end of the archive.
IsArchiveEndAnyFailure(status) == status # 200

\* The catch of processCourt: `error.statusCode === 500`
IsArchiveEnd(status) == status = 500

\* processCourt returned `success: true` for the court this year.
Success(u) == cresult[u].status = 200

\* processCourt threw for the court this year.
CourtThrew(u) == cresult[u].status # 0 /\ ~Success(u) /\ ~IsArchiveEnd(cresult[u].status)

\* The courts of this.baseUrls.
InBaseUrls(u) == \E k \in 1..Len(baseUrls) : baseUrls[k] = u

\* The loop of execute at `this.baseUrls.length > 0`: processYear maps
\* this.baseUrls to pool.add calls, in order and in one job.  For the first
\* courts, as many as slots are free, running++ and processCourt runs to the
\* fetch of the page; for the others add pushes a resolver and suspends.
ProcessYear ==
    /\ cstate = "loop"
    /\ Len(baseUrls) > 0
    /\ currentYear < MaxYears
    /\ LET n == Len(baseUrls)
           started == Min(FreeSlots, n)
       IN  /\ running' = running + started
           /\ queue' = queue \o SubSeq(baseUrls, started + 1, n)
           /\ cpc' = [u \in Courts |->
                        IF \E k \in 1..started : baseUrls[k] = u THEN "fetch"
                        ELSE IF InBaseUrls(u) THEN "queued" ELSE "idle"]
           /\ fetchedPages' = fetchedPages \cup {<<baseUrls[k], currentYear>> : k \in 1..started}
    /\ cresult' = [u \in Courts |-> NoPage]
    /\ cstate' = "year"
    /\ UNCHANGED <<baseUrls, currentYear, collected, ended, cthrown>>
    /\ UNCHANGED <<size, poolCallers, clientVars, extractionVars>>

\* The loop of execute at `this.baseUrls.length = 0`: this.cases is returned.
ReturnCases ==
    /\ cstate = "loop"
    /\ Len(baseUrls) = 0
    /\ cstate' = "returned"
    /\ UNCHANGED <<baseUrls, currentYear, collected, fetchedPages, ended, cpc, cresult, cthrown>>
    /\ UNCHANGED <<poolVars, clientVars, extractionVars>>

\* crawler.fetch of the page settles: processCourt returns the cases of an
\* ok page, returns `success: false` for a 500, rethrows any other failure.
PageResponds(u, o) ==
    /\ cpc[u] = "fetch"
    /\ o \in PageOutcomes
    /\ cresult' = [cresult EXCEPT ![u] = o]
    /\ ended' = IF o.status = 500 THEN ended \cup {<<u, currentYear>>} ELSE ended
    /\ cpc' = [cpc EXCEPT ![u] = "settled"]
    /\ UNCHANGED <<baseUrls, currentYear, collected, fetchedPages, cstate, cthrown>>
    /\ UNCHANGED <<poolVars, clientVars, extractionVars>>

\* The finally of pool.add for a court whose processCourt has settled:
\* running--, and the resolver at the head of the queue, if there is one, is
\* called (0: that of the waitForAll of execute).  If processCourt threw,
\* add rethrows, Promise.all rejects with the first such error and the catch
\* of execute rethrows it.
CourtFinally(u) ==
    /\ cpc[u] = "settled"
    /\ running' = running - 1
    /\ queue' = IF Len(queue) > 0 THEN Tail(queue) ELSE queue
    /\ cpc' = IF Len(queue) > 0 /\ Head(queue) # 0
              THEN [cpc EXCEPT ![u] = "finished", ![Head(queue)] = "woken"]
              ELSE [cpc EXCEPT ![u] = "finished"]
    /\ IF CourtThrew(u) /\ cstate = "year"
       THEN /\ cstate' = "thrown"
            /\ cthrown' = <<[court |-> u, year |-> currentYear, status |-> cresult[u].status]>>
       ELSE /\ cstate' = IF Len(queue) > 0 /\ Head(queue) = 0 THEN "loop" ELSE cstate
            /\ UNCHANGED cthrown
    /\ UNCHANGED <<baseUrls, currentYear, collected, fetchedPages, ended, cresult>>
    /\ UNCHANGED <<size, poolCallers, clientVars, extractionVars>>

\* A woken add resumes: running++, and processCourt runs to the fetch of the
\* page.
CourtResumes(u) ==
    /\ cpc[u] = "woken"
    /\ running' = running + 1
    /\ cpc' = [cpc EXCEPT ![u] = "fetch"]
    /\ fetchedPages' = fetchedPages \cup {<<u, currentYear>>}
    /\ UNCHANGED <<baseUrls, currentYear, collected, ended, cresult, cstate, cthrown>>
    /\ UNCHANGED <<size, queue, poolCallers, clientVars, extractionVars>>

\* Promise.all of processYear is fulfilled: the cases of the year are pushed
\* to this.cases, the courts without success are filtered out of
\* this.baseUrls, the results are saved, currentYear-- and
\* pool.waitForAll(), which suspends on the queue of the pool when running > 0.
YearDone ==
    /\ cstate = "year"
    /\ \A u \in Courts : InBaseUrls(u) => (cpc[u] = "finished" /\ ~CourtThrew(u))
    /\ collected' = collected \cup
            {<<u, currentYear>> : u \in {v \in Courts : InBaseUrls(v) /\ Success(v) /\ cresult[v].cases > 0}}
    /\ baseUrls' = SelectSeq(baseUrls, Success)
    /\ currentYear' = currentYear + 1
    /\ IF running > 0
       THEN queue' = Append(queue, 0) /\ cstate' = "drain"
       ELSE UNCHANGED queue /\ cstate' = "loop"
    /\ UNCHANGED <<fetchedPages, ended, cpc, cresult, cthrown>>
    /\ UNCHANGED <<size, running, poolCallers, clientVars, extractionVars>>

NextCollection ==
    \/ ProcessYear
    \/ ReturnCases
    \/ \E u \in Courts, o \in PageOutcomes : PageResponds(u, o)
    \/ \E u \in Courts : CourtFinally(u)
    \/ \E u \in Courts : CourtResumes(u)
    \/ YearDone

(***************************************************************************)
(* Specifications                                                          *)
(***************************************************************************)
\* The input the pure functions are given where they are not what is checked.
DefaultErrorInput ==
    [typed |-> TRUE, type |-> "network", retryable |-> "unset", code |-> "", rtype |-> "",
     cfg |-> DefaultRetryConfig]

InitPool ==
    /\ \E n \in 1..MaxSize : PoolInit(n)
    /\ RetryManagerInit(MaxRetriesCfg)
    /\ CrawlerInit(MaxConcurrency, 0)
    /\ HeaderManagerInit(MaxAgents)
    /\ ErrorsInit(DefaultErrorInput)
    /\ PipelinesInit
    /\ PureInit(DefaultSelectors, DefaultResponse)
    /\ FlowsInit

SpecPool == InitPool /\ [][NextPool]_vars

InitRetry ==
    /\ PoolInit(MaxSize)
    /\ \E mr \in 1..MaxRetriesCfg : RetryManagerInit(mr)
    /\ CrawlerInit(MaxConcurrency, 0)
    /\ HeaderManagerInit(MaxAgents)
    /\ ErrorsInit(DefaultErrorInput)
    /\ PipelinesInit
    /\ PureInit(DefaultSelectors, DefaultResponse)
    /\ FlowsInit

SpecRetry == InitRetry /\ [][NextRetry]_vars

InitFetch ==
    /\ PoolInit(MaxSize)
    /\ RetryManagerInit(MaxRetriesCfg)
    /\ \E served \in {0, 1} : CrawlerInit(MaxConcurrency, served)
    /\ HeaderManagerInit(MaxAgents)
    /\ ErrorsInit(DefaultErrorInput)
    /\ PipelinesInit
    /\ PureInit(DefaultSelectors, DefaultResponse)
    /\ FlowsInit

SpecFetch == InitFetch /\ [][NextFetch]_vars

\* The steps that continue a withRetries call that was made: the event loop
\* runs a queued continuation or a due timer, or an invocation of an
\* operation ends.
RetryProgress ==
    \/ \E c \in Calls : AwaitLockDone(c)
    \/ \E c \in Calls : OperationReturns(c)
    \/ \E c \in Calls : OperationThrows(c, 0)
    \/ \E c \in Calls : SleepDone(c)

SpecOrdered == InitRetry /\ [][NextOrdered]_vars

SpecSequential == InitRetry /\ [][NextSequential]_vars

InitErrors ==
    /\ PoolInit(MaxSize)
    /\ \E mr \in 1..MaxRetriesCfg : RetryManagerInit(mr)
    /\ CrawlerInit(MaxConcurrency, 0)
    /\ HeaderManagerInit(MaxAgents)
    /\ \E in \in ErrorInputs : ErrorsInit(in)
    /\ PipelinesInit
    /\ PureInit(DefaultSelectors, DefaultResponse)
    /\ FlowsInit

SpecErrors == InitErrors /\ [][NextErrors]_vars

InitHeaders ==
    /\ PoolInit(MaxSize)
    /\ RetryManagerInit(MaxRetriesCfg)
    /\ CrawlerInit(MaxConcurrency, 0)
    /\ \E u \in 1..MaxAgents : HeaderManagerInit(u)
    /\ ErrorsInit(DefaultErrorInput)
    /\ PipelinesInit
    /\ PureInit(DefaultSelectors, DefaultResponse)
    /\ FlowsInit

\* execute of the content extractor on 0..NumCases cases, with a pool of
\* every size up to MaxSize.
InitExtraction ==
    /\ \E n \in 1..MaxSize : PoolInit(n)
    /\ RetryManagerInit(MaxRetriesCfg)
    /\ CrawlerInit(MaxConcurrency, 0)
    /\ HeaderManagerInit(MaxAgents)
    /\ ErrorsInit(DefaultErrorInput)
    /\ PipelinesInit
    /\ PureInit(DefaultSelectors, DefaultResponse)
    /\ \E n \in 0..NumCases : ExtractionInit(n)
    /\ CollectionInit

SpecExtraction == InitExtraction /\ [][NextExtraction]_vars

\* execute of the case collection (InitPool: a pool of every size up to
\* MaxSize).
SpecCollection == InitPool /\ [][NextCollection]_vars

SpecRotation == InitHeaders /\ [][NextRotation]_vars

InitFetchHeaders ==
    /\ PoolInit(MaxSize)
    /\ \E mr \in 1..MaxRetriesCfg : RetryManagerInit(mr)
    /\ CrawlerInit(MaxConcurrency, 0)
    /\ \E u \in 1..MaxAgents : HeaderManagerInit(u)
    /\ ErrorsInit(DefaultErrorInput)
    /\ PipelinesInit
    /\ PureInit(DefaultSelectors, DefaultResponse)
    /\ FlowsInit

SpecFetchHeaders == InitFetchHeaders /\ [][NextFetchHeaders]_vars

SpecHeaders == InitHeaders /\ [][NextHeaders]_vars

SpecReset == InitHeaders /\ [][NextReset]_vars

SpecCompose == InitHeaders /\ [][NextCompose]_vars

InitOthers ==
    /\ PoolInit(MaxSize)
    /\ RetryManagerInit(MaxRetriesCfg)
    /\ CrawlerInit(MaxConcurrency, 0)
    /\ HeaderManagerInit(MaxAgents)
    /\ ErrorsInit(DefaultErrorInput)

\* One executePipeline call among addPipeline and use calls.
InitPipeline ==
    /\ InitOthers
    /\ PipelinesInit
    /\ PureInit(DefaultSelectors, DefaultResponse)
    /\ FlowsInit

SpecPipeline == InitPipeline /\ [][NextPipeline]_vars
SpecRerun == InitPipeline /\ [][NextRerun]_vars

\* extract on every selectors object of the model.
InitExtract ==
    /\ InitOthers
    /\ PipelinesInit
    /\ \E o \in SelectorObjects : PureInit(o, DefaultResponse)
    /\ FlowsInit

SpecExtract == InitExtract /\ [][NextExtract]_vars

\* The response handling of fetch on every response of the model.
InitResponse ==
    /\ InitOthers
    /\ PipelinesInit
    /\ \E r \in Responses : PureInit(DefaultSelectors, r)
    /\ FlowsInit

SpecResponse == InitResponse /\ [][NextResponse]_vars

(***************************************************************************)
(* Claims about ConcurrencyPool, checked under SpecPool.                   *)
(***************************************************************************)

\* C1: the running counter of a pool of size n never exceeds n, also when an
\* add() arrives after a release has woken a waiter that has not yet resumed.
C1_RunningWithinSize == running <= size

\* add() has invoked the adder's fn.
Started(a) == incs[a] > 0

\* C7: of two adders that both found the pool full, the one that called add()
\* first has its operation started no later than the other's: whenever the
\* later caller's operation has started, so has the earlier caller's.
C7_QueuedFifo ==
    \A i \in 1..Len(fullSeq) : \A j \in 1..Len(fullSeq) :
        (i < j /\ Started(fullSeq[j])) => Started(fullSeq[i])

\* C7 witness: two adders were queued behind a full pool, and the operation of
\* the later one has started.
C7_Witness == Len(fullSeq) >= 2 /\ Started(fullSeq[2])

\* An operation of add() that has been started and has not yet released.
OperationPending == \E a \in Adders : pc[a] \in {"woken", "running", "returned", "threw"}

\* C8: no adder stays queued while the pool has a free slot and no operation
\* is left that would wake it, waitForAll() callers in the queue or not.
C8_NoStrandedAdder ==
    \A a \in Adders :
        ~(pc[a] = "queued" /\ running < size /\ ~OperationPending /\ jobs = <<>>)

\* C9: whenever a waitForAll() call has returned, running was 0 at its return.
C9_DrainReturnsAtZero ==
    \A d \in Drainers : pc[d] = "done" => drainSeen[d] = 0

\* Every add() call made so far has completed.
AllAddsCompleted == \A a \in Adders : pc[a] \in {"idle", "done"}

\* C10: an add() that incremented running decrements it exactly once when its
\* fn has finished (returned or thrown); once every add() call has completed,
\* running = 0 and the queue is empty.
C10_NoSlotLeak ==
    /\ \A a \in Adders : /\ decs[a] <= incs[a] /\ incs[a] <= 1
                         /\ (pc[a] = "done" => (incs[a] = 1 /\ decs[a] = 1))
    /\ (AllAddsCompleted => (running = 0 /\ queue = <<>>))

\* The counter half of C10 alone.
C10_CounterBalanced ==
    /\ \A a \in Adders : /\ decs[a] <= incs[a] /\ incs[a] <= 1
                         /\ (pc[a] = "done" => (incs[a] = 1 /\ decs[a] = 1))
    /\ (AllAddsCompleted => running = 0)

(***************************************************************************)
(* Claims about RetryManager.withRetries, checked under SpecRetry.         *)
(***************************************************************************)

\* The calls of a key whose operation is executing.
ActiveAttempts(k) == {c \in Calls : rpc[c] = "operation" /\ key[c] = k}

\* C2: for every retry key at most one attempt (one execution of the wrapped
\* operation) is active at any instant.
C2_OneActiveAttemptPerKey == \A k \in Keys : Cardinality(ActiveAttempts(k)) <= 1

\* A withRetries call has ended, by returning or by throwing.
Finished(c) == rpc[c] \in {"returned", "thrown", "thrownLast"}

\* No other withRetries call has been made on the key of call c.
FreshKey(c) == \A d \in Calls \ {c} : rpc[d] = "idle" \/ key[d] # key[c]

\* C3: on a fresh key, an operation that fails with a retryable error on its
\* first k < maxRetries invocations and then succeeds makes withRetries return
\* the success value after exactly k + 1 invocations, and the key's retry
\* history is empty afterwards.
C3_SucceedsAfterKFailures ==
    \A c \in Calls :
        (/\ Finished(c) /\ FreshKey(c)
         /\ plan[c].kind = "operation" /\ ~plan[c].always
         /\ plan[c].err = "network" /\ plan[c].fails < maxRetries)
        => (/\ rpc[c] = "returned"
            /\ invocations[c] = plan[c].fails + 1
            /\ GetRetryHistory(key[c]) = <<>>)

\* C4: an operation that always fails with a retryable error is invoked
\* exactly maxRetries times before withRetries throws (here for a call that is
\* alone on its key).
C4_ThrowsAfterMaxRetries ==
    \A c \in Calls :
        (/\ Finished(c) /\ FreshKey(c)
         /\ plan[c].kind = "operation" /\ plan[c].always /\ plan[c].err = "network")
        => (rpc[c] = "thrown" /\ invocations[c] = maxRetries)

(***************************************************************************)
(* Claims about Crawler.fetch, checked under SpecFetch.                    *)
(***************************************************************************)

\* C5: any two completions of enforceRateLimit are at least minInterval apart.
C5_MinimumSpacing == closestGap = -1 \/ closestGap >= minInterval

\* The network calls in flight.
InFlight == {c \in Calls : opStage[c] = "network"}

\* C6: the network calls in flight through Crawler.fetch never outnumber the
\* configured rateLimit.concurrency.
C6_InFlightWithinConcurrency == Cardinality(InFlight) <= concurrency

(***************************************************************************)
(* Claims about withRetries calls made one after the other, checked under  *)
(* SpecSequential.                                                         *)
(***************************************************************************)

\* The operation of call c has failed with an error that is not retryable.
NonRetryableFailure(c) == lastError[c] # NoError /\ ~IsRetryableError(lastError[c])

\* The error is held by a record of some key's retry history.
Recorded(e) ==
    \E k \in Keys : \E i \in 1..Len(retryHistory[k]) : retryHistory[k][i].error = e

\* C11: when the operation fails with a non-retryable error (Parse, Validation
\* or an untyped error without a transport code), withRetries throws that
\* error at once: the operation is not invoked again, no delay is slept and
\* no retry record is appended for the failure.
C11_NonRetryableThrownAtOnce ==
    \A c \in Calls :
        NonRetryableFailure(c) =>
            /\ rpc[c] = "thrown"
            /\ result[c] = lastError[c]
            /\ invocations[c] = lastError[c].inv
            /\ slept[c] = -1
            /\ ~Recorded(lastError[c])

\* C11 witness: a call with attempts left has thrown the untyped error
\* without a transport code that its operation failed with.
C11_Witness ==
    \E c \in Calls :
        /\ NonRetryableFailure(c) /\ rpc[c] = "thrown"
        /\ lastError[c].name = "Error" /\ attempt[c] < maxRetries

HasRetryAfter(e) == e.name = "RateLimitError" /\ e.retryAfter > 0

\* C13: a retried attempt that failed with a RateLimit error carrying
\* retryAfter = r > 0 records and sleeps a delay of exactly r * 1000 ms,
\* whatever the backoff formula and the jitter give.
C13_RetryAfterDelay ==
    /\ \A k \in Keys : \A i \in 1..Len(retryHistory[k]) :
          HasRetryAfter(retryHistory[k][i].error) =>
              retryHistory[k][i].delay = retryHistory[k][i].error.retryAfter * 1000
    /\ \A c \in Calls :
          (rpc[c] = "sleep" /\ HasRetryAfter(lastError[c])) =>
              slept[c] = lastError[c].retryAfter * 1000

\* C13 witness: a call sleeps 5000 ms after a RateLimit error with retryAfter 5.
C13_Witness ==
    \E c \in Calls :
        /\ rpc[c] = "sleep" /\ lastError[c].name = "RateLimitError"
        /\ lastError[c].retryAfter = 5 /\ slept[c] = 5000
        /\ Recorded(lastError[c])

(***************************************************************************)
(* Claims about calculateDelay, the error classes and isRetryableError,    *)
(* checked under SpecErrors.                                               *)
(***************************************************************************)

\* C14: without jitter, calculateDelay(attempt) for attempts 1, 2, 3, ... is
\* min(initialDelay * backoffFactor^(attempt-1), maxDelay): the delays never
\* decrease and none exceeds maxDelay.
C14_BackoffMonotoneCapped ==
    \A i \in 1..Len(delays) :
        /\ delays[i] = Min(errorInput.cfg.initialDelay
                             * Pow(errorInput.cfg.backoffFactor, i - 1),
                           errorInput.cfg.maxDelay)
        /\ delays[i] <= errorInput.cfg.maxDelay
        /\ i > 1 => delays[i - 1] <= delays[i]

\* C14 witness: the delays have grown from the first attempt and have
\* reached maxDelay.
C14_Witness ==
    /\ Len(delays) >= 3
    /\ delays[1] < delays[2]
    /\ delays[Len(delays)] = errorInput.cfg.maxDelay
    /\ errorInput.cfg.initialDelay * Pow(errorInput.cfg.backoffFactor, Len(delays) - 1)
          > errorInput.cfg.maxDelay

\* What the kind of a typed error makes of its retryable flag.
RetryableOfKind(type, given) ==
    CASE type \in {"parse", "validation"} -> FALSE
      [] type \in {"network", "rateLimit"} -> TRUE
      [] OTHER -> given # "no"

\* C18: the retryable flag of an error built by createError is fixed by its
\* kind: false for parse and validation, true for network and rateLimit
\* whatever options.retryable is, true for pipeline and queue unless
\* options.retryable overrides it; no later operation changes it.
C18_RetryableFixedByKind ==
    (builtError # NoError /\ errorInput.typed) =>
        builtError.retryable = RetryableOfKind(errorInput.type, errorInput.retryable)

\* C18 witness: a parse error built with options.retryable = true has been
\* classified and wrapped by executePipeline, and is still not retryable.
C18_Witness ==
    /\ builtError.name = "ParseError" /\ errorInput.retryable = "yes"
    /\ verdict # <<>> /\ pipelineError # NoError
    /\ ~builtError.retryable

\* C19: the Pipeline error executePipeline throws is never retryable when the
\* wrapped cause is not retryable or carries no retryability.
C19_PipelineErrorInheritsRetryable ==
    (pipelineError # NoError /\ (~builtError.crawler \/ ~builtError.retryable)) =>
        ~pipelineError.retryable

\* C20: isRetryableError returns error.retryable for a typed error; for any
\* other error it returns true exactly when the error carries a transport
\* failure code or the type request-timeout; shouldRetry retries those errors
\* while attempts are left and nothing else.
C20_IsRetryableError ==
    verdict # <<>> =>
        /\ builtError.crawler => verdict[1] = builtError.retryable
        /\ ~errorInput.typed =>
              verdict[1] = (\/ errorInput.code \in {"ECONNRESET", "ECONNREFUSED", "ETIMEDOUT"}
                            \/ errorInput.rtype = "request-timeout")
        /\ \A att \in Attempts : verdict[2][att] = (att < maxRetries /\ verdict[1])

\* C20 witness: an untyped error without a code whose type is request-timeout
\* has been classified as retryable, and is retried on attempt 1.
C20_Witness ==
    /\ verdict # <<>> /\ ~errorInput.typed
    /\ errorInput.code = "" /\ errorInput.rtype = "request-timeout"
    /\ verdict[1] /\ maxRetries >= 2 /\ verdict[2][1]

(***************************************************************************)
(* Claims about HeaderManager and Crawler.reset.                           *)
(***************************************************************************)

\* The getHeaders calls of a domain that have returned.
Returned(d) == {i \in 1..Len(callSeq[d]) : hpc[callSeq[d][i]] = "done"}

\* C15 (SpecRotation): with more than one user agent, the i-th getHeaders call
\* of a domain, counted from 0 in call order, returns agents[i mod u], and the
\* rotation index of the domain has advanced by one per call of that domain,
\* whatever is called for other domains.
C15_RotationPerDomain ==
    Len(userAgents) > 1 =>
        \A d \in Domains :
            /\ \A i \in Returned(d) :
                  hreturn[callSeq[d][i]][1]["User-Agent"]
                      = userAgents[((i - 1) % Len(userAgents)) + 1]
            /\ IF Returned(d) = {}
               THEN userAgentIndex[d] = <<>>
               ELSE userAgentIndex[d] = <<Cardinality(Returned(d)) % Len(userAgents)>>

\* C15 witness: with two agents, three calls of one domain have returned, two
\* of them having waited together for the domain's lock, and the third call
\* got the first agent again.
C15_Witness ==
    /\ Len(userAgents) = 2
    /\ \E d \in Domains :
          /\ Len(callSeq[d]) = 3 /\ Cardinality(Returned(d)) = 3
          /\ hreturn[callSeq[d][3]][1]["User-Agent"] = userAgents[1]
          /\ hreturn[callSeq[d][2]][1]["User-Agent"] = userAgents[2]

\* The returned headers hold every header of h with its value.
Contains(ret, h) == \A n \in DOMAIN h : n \in DOMAIN ret /\ ret[n] = h[n]

\* The override last installed for a domain, with a ttl, has not reached its
\* expiry, or has passed it.
InForce(o) == o.due # 0 /\ now < o.due
Expired(o) == o.due # 0 /\ now > o.due

\* A getHeaders call composes its headers in this step.
Composes(h) == hpc[h] # "done" /\ hpc'[h] = "done"

\* C16 (SpecHeaders): after setCustomHeaders(domain, headers, ttl), a
\* getHeaders of the domain that composes its headers before the ttl has
\* elapsed returns the custom headers, and one that composes them after it
\* has elapsed does not.
C16_OverrideUntilExpiry ==
    [][\A h \in HCalls :
          (Composes(h) /\ overrides[hdomain'[h]] # <<>>) =>
              LET o == overrides[hdomain'[h]][1]
              IN  /\ InForce(o) => Contains(hreturn'[h][1], o.headers)
                  /\ Expired(o) => ~Contains(hreturn'[h][1], o.headers)]_vars

\* The part of C16 that holds: a getHeaders that composes its headers after
\* the ttl of the last override has elapsed does not return that override.
C16_GoneAfterExpiry ==
    [][\A h \in HCalls :
          (Composes(h) /\ overrides[hdomain'[h]] # <<>>) =>
              LET o == overrides[hdomain'[h]][1]
              IN  Expired(o) => ~Contains(hreturn'[h][1], o.headers)]_vars

\* All per-key and per-domain state of the crawler is cleared.
AllCleared ==
    /\ requestCount = 0
    /\ lastRequestTime = 0
    /\ \A k \in Keys : GetRetryHistory(k) = <<>> /\ retryLocks[k] = <<>>
    /\ \A d \in Domains : /\ customHeaders[d] = <<>>
                          /\ domainHeaders[d] = <<>>
                          /\ userAgentIndex[d] = <<>>
                          /\ headerLocks[d] = <<>>

\* The headers getHeaders returns for a domain without any state.
DefaultComposition ==
    IF Len(userAgents) > 1
    THEN Assign(DefaultHeaders, "User-Agent" :> userAgents[1])
    ELSE DefaultHeaders

\* C17 (SpecReset): reset() leaves all per-key and per-domain state cleared,
\* whatever preceded it, and a getHeaders called on the cleared state returns
\* the default composition with the first user agent.
C17_ResetClearsAll ==
    [][/\ Reset => AllCleared'
       /\ \A h \in HCalls : \A d \in Domains :
             (AllCleared /\ GetHeaders(h, d)) => hreturn'[h] = <<DefaultComposition>>]_vars

\* C17 witness: reset() has been called with a request counted, a retry
\* recorded, a retry lock set and every header map filled, and has left all
\* of it cleared.
C17_Witness == resetDone = "populated" /\ AllCleared

(***************************************************************************)
(* Claims about the hand-over of a released ConcurrencyPool slot.          *)
(***************************************************************************)

\* The adders a release has woken and that have not resumed yet.
WokenAdders == {b \in Adders : pc[b] = "woken"}

\* C30 (SpecPool): a slot released while callers are queued goes to the woken
\* head of the queue: an add() called after the release, while the running
\* operations and the woken waiters fill the pool, does not start its
\* operation.
C30_SlotGoesToWokenHead ==
    [][\A a \in Adders :
          (pc[a] = "idle" /\ pc'[a] = "running")
              => running + Cardinality(WokenAdders) < size]_vars

\* The part of C30 that holds: a release wakes exactly the caller at the head
\* of the queue.
C30_WakesHeadOnly ==
    [][\A a \in Adders :
          (pc[a] \in {"returned", "threw"} /\ pc'[a] = "done" /\ queue # <<>>)
              => /\ pc'[Head(queue)] = "woken"
                 /\ queue' = Tail(queue)
                 /\ \A c \in PoolCallers \ {a, Head(queue)} : pc'[c] = pc[c]]_vars

(***************************************************************************)
(* Claims about executePipeline.                                           *)
(***************************************************************************)

\* The executePipeline call is made in this step.
PipelineCalled == pstate = "idle" /\ pstate' # "idle"

\* C21 (SpecPipeline): executePipeline for a name that is not registered
\* throws a Pipeline error, invokes no middleware and no pipeline, and leaves
\* the registry and the middleware list as they were.
C21_UnknownPipelineFails ==
    [][(PipelineCalled /\ pipelines[pname'] = <<>>)
          => /\ pstate' = "thrown"
             /\ pthrown' # <<>> /\ pthrown'[1].name = "PipelineError"
             /\ preturn' = <<>>
             /\ invoked' = <<>>
             /\ pipelines' = pipelines
             /\ middleware' = middleware]_vars

\* C21 witness: with another pipeline and a middleware registered, the call
\* for the unregistered name has thrown.
C21_Witness ==
    /\ pstate = "thrown" /\ invoked = <<>>
    /\ pipelines[pname] = <<>>
    /\ \E n \in PipelineNames : pipelines[n] # <<>>
    /\ middleware # <<>>

\* The caller's context extended by crawler = the executing crawler.
WithCrawler(context) ==
    [k \in (DOMAIN context) \cup {"crawler"} |-> IF k = "crawler" THEN This ELSE context[k]]

\* C22 (SpecPipeline): with no middleware registered, executePipeline invokes
\* the pipeline registered under the name once, with the caller's context
\* extended by the crawler, and returns the value the pipeline returns.
C22_PipelineAloneReturnsItsValue ==
    (pstate = "returned" /\ middleware = <<>>)
        => /\ Len(invoked) = 1
           /\ invoked[1].step = 0
           /\ invoked[1].fn = pfn[1]
           /\ invoked[1].ctx = WithCrawler(pcontext)
           /\ preturn = <<PipelineValue(pfn[1], WithCrawler(pcontext))>>
           /\ pthrown = <<>>

\* C22 witness: the pipeline that returns its context has returned, for a
\* caller whose context has a crawler field of its own.
C22_Witness ==
    /\ pstate = "returned" /\ middleware = <<>>
    /\ pfn = <<"echo">>
    /\ "crawler" \in DOMAIN pcontext
    /\ preturn[1]["crawler"] = This /\ preturn[1]["x"] = "1"

\* The context after the first i middleware of a list have run on ctx0,
\* one after the other: a result replaces the context, none keeps it.
RECURSIVE ContextAfter(_, _, _)
ContextAfter(list, ctx0, i) ==
    IF i = 0
    THEN ctx0
    ELSE LET prev == ContextAfter(list, ctx0, i - 1)
             res == MiddlewareResult(list[i], prev)
         IN  IF res = <<>> THEN prev ELSE res[1]

\* C23 (SpecPipeline): the functions executePipeline invokes are the
\* registered middleware, once each in registration order, each with the
\* context the steps before it produced, and then, once, the pipeline with
\* the final context; the pipeline is invoked when every middleware has run.
C23_MiddlewareInOrder ==
    [][/\ \A j \in 1..Len(invoked') :
             /\ invoked'[j].ctx = ContextAfter(middleware', WithCrawler(pcontext'), j - 1)
             /\ IF invoked'[j].step = 0
                THEN j = Len(invoked') /\ invoked'[j].fn = pfn'[1]
                ELSE invoked'[j].step = j /\ invoked'[j].fn = middleware'[j]
       /\ (pstate # "pipeline" /\ pstate' = "pipeline")
             => Len(invoked') = Len(middleware') + 1
       /\ pstate' = "returned" => invoked'[Len(invoked')].step = 0]_vars

\* C23 witness: a middleware that adds a field, one that returns nothing and
\* one that returns a new context have run in this order, and the pipeline
\* has returned the context of the last one.
C23_Witness ==
    /\ pstate = "returned"
    /\ middleware = <<"extend", "keep", "fresh">>
    /\ Len(invoked) = 4
    /\ invoked[2].ctx = invoked[3].ctx /\ invoked[2].ctx # invoked[1].ctx
    /\ pfn = <<"echo">> /\ preturn = <<("seen" :> "yes")>>

\* The function whose throw the catch of executePipeline caught.
Thrower == IF invoked[Len(invoked)].step = 0 THEN 0 ELSE invoked[Len(invoked)].step

\* C24 (SpecPipeline): when a middleware or the pipeline throws e,
\* executePipeline throws a Pipeline error whose metadata holds pipelineId =
\* name and originalError = e.
C24_WrapsOriginalError ==
    (pstate = "thrown" /\ invoked # <<>>)
        => /\ pthrown[1].name = "PipelineError"
           /\ pthrown[1].metadata["pipelineId"] = Str(pname)
           /\ "originalError" \in DOMAIN pthrown[1].metadata
           /\ pthrown[1].metadata["originalError"] = ErrVal(Cause(Thrower))

\* The part of C24 that holds: the error thrown is a Pipeline error whose
\* metadata holds pipelineId = name.
C24_WrapsWithPipelineId ==
    (pstate = "thrown" /\ invoked # <<>>)
        => /\ pthrown[1].name = "PipelineError"
           /\ pthrown[1].metadata["pipelineId"] = Str(pname)

\* C25 (SpecPipeline): the context given to every middleware and to the
\* pipeline holds the crawler reference.
C25_ContextHoldsCrawler ==
    \A j \in 1..Len(invoked) :
        /\ "crawler" \in DOMAIN invoked[j].ctx
        /\ invoked[j].ctx["crawler"] = This

(***************************************************************************)
(* Claims about Crawler.extract.                                           *)
(***************************************************************************)

\* t is s without the whitespace at its two ends.
IsTrimOf(t, s) ==
    \E a \in 0..Len(s) :
        /\ a + Len(t) <= Len(s)
        /\ SubSeq(s, a + 1, a + Len(t)) = t
        /\ \A i \in 1..a : s[i] \in Whitespace
        /\ \A i \in (a + Len(t) + 1)..Len(s) : s[i] \in Whitespace
        /\ t # <<>> => (t[1] \notin Whitespace /\ t[Len(t)] \notin Whitespace)
        /\ t = <<>> => a = Len(s)

\* The selectors object holds nothing but strings that are selectors.
AllSelectorStrings ==
    \A i \in 1..Len(selectors) :
        selectors[i].selector.kind = "string" /\ selectors[i].selector.sel # "h1["

\* C26 (SpecExtract): extract on selector strings does not throw and returns
\* one entry per selector name: the trimmed text of the element for a string
\* that matches exactly one element, null for a string that matches none.
C26_OneEntryPerSelector ==
    (extracted # <<>> /\ AllSelectorStrings)
        => /\ ~extracted[1].threw
           /\ DOMAIN extracted[1].result = {selectors[i].key : i \in 1..Len(selectors)}
           /\ \A i \in 1..Len(selectors) :
                 LET elements == Matches(selectors[i].selector.sel)
                     value == extracted[1].result[selectors[i].key]
                 IN  /\ Len(elements) = 1
                        => value.kind = "text" /\ IsTrimOf(value.text, elements[1])
                     /\ Len(elements) = 0 => value = Null

\* The part of C26 that holds: no throw, one entry per name, and the trimmed
\* text for a string that matches exactly one element.
C26_TextOfSingleMatch ==
    (extracted # <<>> /\ AllSelectorStrings)
        => /\ ~extracted[1].threw
           /\ DOMAIN extracted[1].result = {selectors[i].key : i \in 1..Len(selectors)}
           /\ \A i \in 1..Len(selectors) :
                 LET elements == Matches(selectors[i].selector.sel)
                     value == extracted[1].result[selectors[i].key]
                 IN  Len(elements) = 1
                        => value.kind = "text" /\ IsTrimOf(value.text, elements[1])

\* The evaluation of the selector fails: a string that is no selector, or a
\* callback that throws.
Fails(selector) ==
    \/ selector.kind = "string" /\ selector.sel = "h1["
    \/ selector.kind = "function" /\ selector.sel \in {"throwsError", "throwsNull"}

\* C27 (SpecExtract): a selector whose evaluation fails gets null under its
\* key, every other selector, before and after it, gets its value, and
\* extract does not throw.
C27_FailureIsolated ==
    extracted # <<>>
        => /\ ~extracted[1].threw
           /\ DOMAIN extracted[1].result = {selectors[i].key : i \in 1..Len(selectors)}
           /\ \A i \in 1..Len(selectors) :
                 extracted[1].result[selectors[i].key] =
                     IF Fails(selectors[i].selector)
                     THEN Null
                     ELSE Evaluate(selectors[i].selector).value

\* The part of C27 that holds: what C27 says, of selectors whose failure
\* throws an Error object.
C27_ErrorObjectsIsolated ==
    (extracted # <<>>
        /\ \A i \in 1..Len(selectors) : selectors[i].selector.sel # "throwsNull")
        => /\ ~extracted[1].threw
           /\ DOMAIN extracted[1].result = {selectors[i].key : i \in 1..Len(selectors)}
           /\ \A i \in 1..Len(selectors) :
                 extracted[1].result[selectors[i].key] =
                     IF Fails(selectors[i].selector)
                     THEN Null
                     ELSE Evaluate(selectors[i].selector).value

(***************************************************************************)
(* Claims about the response handling of Crawler.fetch.                    *)
(***************************************************************************)

\* The header is a number written in digits, and its value.
IsNumeral(header) ==
    header # <<>> /\ header[1] # <<>> /\ \A i \in 1..Len(header[1]) : header[1][i] \in DOMAIN DigitValue
NumeralValue(header) == Decimal(header[1])

\* C28 (SpecResponse): a response that is ok is returned; a 429 throws a
\* RateLimit error whose retryAfter is the number in the retry-after header,
\* or 60 without the header; any other status throws a Network error with
\* that status as statusCode.
C28_TypedErrorByStatus ==
    outcome # <<>>
        => IF Ok(response.status)
           THEN outcome[1].kind = "returned"
           ELSE /\ outcome[1].kind = "thrown"
                /\ outcome[1].error.statusCode = response.status
                /\ IF response.status = 429
                   THEN /\ outcome[1].error.name = "RateLimitError"
                        /\ IsNumeral(response.header)
                              => outcome[1].error.retryAfter = NumeralValue(response.header)
                        /\ response.header = <<>>
                              => outcome[1].error.retryAfter = DefaultRetryAfter
                   ELSE outcome[1].error.name = "NetworkError"

\* The part of C28 that holds: what C28 says, of retry-after headers other
\* than 0.
C28_TypedErrorUnlessZero ==
    (outcome # <<>> /\ response.header # << <<"0">> >>)
        => IF Ok(response.status)
           THEN outcome[1].kind = "returned"
           ELSE /\ outcome[1].kind = "thrown"
                /\ outcome[1].error.statusCode = response.status
                /\ IF response.status = 429
                   THEN /\ outcome[1].error.name = "RateLimitError"
                        /\ IsNumeral(response.header)
                              => outcome[1].error.retryAfter = NumeralValue(response.header)
                        /\ response.header = <<>>
                              => outcome[1].error.retryAfter = DefaultRetryAfter
                   ELSE outcome[1].error.name = "NetworkError"

(***************************************************************************)
(* Claims about the composition of headers.                                *)
(***************************************************************************)

\* Every header name of the model.
HeaderNames ==
    (DOMAIN DefaultHeaders)
        \cup UNION {DOMAIN c : c \in OverlappingDomainChoices \cup OverlappingCustomChoices}

\* The value a header name has by precedence for domain d: that of the
\* domain's custom headers if they define the name, else that of the domain's
\* persistent headers if they define it, else the default; <<>>: no value.
ByPrecedence(d, name) ==
    IF customHeaders[d] # <<>> /\ name \in DOMAIN customHeaders[d][1]
    THEN <<customHeaders[d][1][name]>>
    ELSE IF domainHeaders[d] # <<>> /\ name \in DOMAIN domainHeaders[d][1]
    THEN <<domainHeaders[d][1][name]>>
    ELSE IF name \in DOMAIN DefaultHeaders
    THEN <<DefaultHeaders[name]>>
    ELSE <<>>

\* The value of a header name in returned headers; <<>>: no value.
ValueIn(ret, name) == IF name \in DOMAIN ret THEN <<ret[name]>> ELSE <<>>

\* C29 as stated (SpecCompose): every header name of the headers getHeaders
\* returns has the value it has by precedence for the call's domain.
C29_EveryNameByPrecedence ==
    [][\A h \in HCalls :
          Composes(h) =>
              \A name \in HeaderNames :
                  ValueIn(hreturn'[h][1], name) = ByPrecedence(hdomain'[h], name)]_vars

\* The names the rotation leaves alone.
Unrotated == IF Len(userAgents) > 1 THEN HeaderNames \ {"User-Agent"} ELSE HeaderNames

\* C29 as amended (SpecCompose): every header name other than User-Agent has
\* the value it has by precedence for the call's domain, and so has
\* User-Agent when no more than one user agent is configured.
C29_ByPrecedenceButRotation ==
    [][\A h \in HCalls :
          Composes(h) =>
              \A name \in Unrotated :
                  ValueIn(hreturn'[h][1], name) = ByPrecedence(hdomain'[h], name)]_vars

\* C29 witness: with one user agent, a call has returned for a domain whose
\* custom headers override Accept and User-Agent of its persistent headers,
\* which give X-Token, while the other domain has custom headers too.
C29_Witness ==
    /\ Len(userAgents) = 1
    /\ \E h \in HCalls :
          /\ hpc[h] = "done" /\ hdomain[h] = 1
          /\ customHeaders[1] = <<("User-Agent" :> "custom-ua") @@ ("Accept" :> "application/xml")>>
          /\ domainHeaders[1] # <<>> /\ "X-Token" \in DOMAIN domainHeaders[1][1]
          /\ customHeaders[2] = <<("X-Token" :> "t1")>>
          /\ hreturn[h][1]["Accept"] = "application/xml"
          /\ hreturn[h][1]["User-Agent"] = "custom-ua"
          /\ hreturn[h][1]["X-Token"] = "d"

(***************************************************************************)
(* C31 .. C40                                                              *)
(***************************************************************************)
\* A getHeaders call that is suspended at `await existingLock`.
PendingOn(d) == \E h \in HCalls : hpc[h] = "awaitLock" /\ hdomain[h] = d

\* C31: a mutation of a domain's headers (setDomainHeaders,
\* removeDomainHeaders, setCustomHeaders) issued while an earlier getHeaders
\* of that domain is still pending does not take effect before that call has
\* completed: no step changes the domain's or the custom headers of a domain
\* on which a getHeaders call is suspended.
C31_MutationWaitsForPending ==
    [][\A d \in Domains :
          PendingOn(d) => /\ domainHeaders'[d] = domainHeaders[d]
                          /\ customHeaders'[d] = customHeaders[d]]_vars

\* The place a withRetries call is at is within what the loop allows: the
\* attempt counter is within maxRetries and counts the passes of the loop, no
\* pass invokes the operation twice, the throw after the loop is not reached,
\* a call that returned returns from an invocation of its operation that
\* returned, and a call that threw threw an error that is not retryable or
\* threw on its last attempt.
WithinLoop(c) ==
    /\ attempt[c] <= maxRetries
    /\ invocations[c] <= attempt[c]
    /\ rpc[c] # "thrownLast"
    /\ rpc[c] = "returned" => (~plan[c].always /\ invocations[c] > plan[c].fails)
    /\ rpc[c] = "thrown" => (~IsRetryableError(result[c]) \/ attempt[c] = maxRetries)

\* What is left of a withRetries call: the passes of the loop that remain,
\* and within a pass the await of the lock, the operation and the sleep.
Remaining(c) ==
    CASE rpc[c] = "idle" -> 4 * maxRetries + 4
      [] rpc[c] = "awaitLock" -> 4 * (maxRetries - attempt[c]) + 3
      [] rpc[c] = "operation" -> 4 * (maxRetries - attempt[c]) + 2
      [] rpc[c] = "sleep" -> 4 * (maxRetries - attempt[c]) + 1
      [] OTHER -> 0

\* C33: every withRetries call terminates when every invocation of its
\* operation does.  The attempt counter never exceeds maxRetries and the
\* throw after the loop is never reached; a call returns the result of its
\* operation, or throws a non-retryable error, or throws on attempt
\* maxRetries.  While a call that was made has not ended, a step that
\* continues some call is possible, and every step brings one call nearer to
\* its end and no call further from it, so that every call ends within
\* maxRetries passes of its loop.
C33_Terminates ==
    /\ [](\A c \in Calls : WithinLoop(c))
    /\ []((\E c \in Calls : rpc[c] # "idle" /\ ~Finished(c)) => ENABLED RetryProgress)
    /\ [][/\ \A c \in Calls : Remaining(c)' <= Remaining(c)
          /\ \E c \in Calls : Remaining(c)' < Remaining(c)]_vars

\* A call has thrown a retryable error after its last attempt, of two.
C33_Witness ==
    \E c \in Calls :
        /\ rpc[c] = "thrown" /\ IsRetryableError(result[c])
        /\ attempt[c] = maxRetries /\ maxRetries >= 2

\* C35: every withRetries call invokes its own operation at least once
\* before it returns or throws, whatever happened earlier on its key: no call
\* has ended without an invocation of its operation.
C35_OwnOperationInvoked ==
    \A c \in Calls : Finished(c) => invocations[c] >= 1

\* The withRetries call that takes the step.
Acts(c) == rpc'[c] # rpc[c] \/ attempt'[c] # attempt[c]

\* What a call alone on its key comes to, from its own operation and
\* maxRetries: it returns from its first invocation, or throws the error of
\* its first invocation, at once or at attempt maxRetries, with the record of
\* that failure as the key's history.
OutcomeAlone(c) ==
    LET e == ThrownError(plan[c], c, 1)
    IN  IF ~plan[c].always /\ plan[c].fails = 0
        THEN /\ rpc[c] = "returned" /\ attempt[c] = 1 /\ invocations[c] = 1
             /\ GetRetryHistory(key[c]) = <<>>
        ELSE /\ rpc[c] = "thrown" /\ result[c] = e /\ invocations[c] = 1
             /\ attempt[c] = IF IsRetryableError(e) THEN maxRetries ELSE 1
             /\ GetRetryHistory(key[c]) =
                    IF ShouldRetry(e, 1)
                    THEN <<[attempt |-> 1, error |-> e, delay |-> RetryDelay(e, 1, 0)]>>
                    ELSE <<>>

\* C32: withRetries calls on different keys are independent.  A call only
\* ever awaits the resolved promise or the attempt of a call on its own key;
\* a step of a call on one key leaves the calls, the history and the lock of
\* every other key as they are; and a call that is alone on its key ends as
\* its own operation and maxRetries make it end, whatever the calls on other
\* keys do meanwhile.
C32_KeysIndependent ==
    /\ [](\A c \in Calls :
            (rpc[c] = "awaitLock" /\ awaiting[c] # ResolvedLock)
                => key[awaiting[c].by] = key[c])
    /\ [](\A c \in Calls : (Finished(c) /\ FreshKey(c)) => OutcomeAlone(c))
    /\ [][\A c \in Calls : Acts(c) =>
            /\ \A d \in Calls \ {c} :
                  /\ rpc'[d] = rpc[d] /\ attempt'[d] = attempt[d]
                  /\ invocations'[d] = invocations[d] /\ result'[d] = result[d]
                  /\ lastError'[d] = lastError[d] /\ awaiting'[d] = awaiting[d]
            /\ \A k \in Keys \ {key'[c]} :
                  /\ retryHistory'[k] = retryHistory[k]
                  /\ retryLocks'[k] = retryLocks[k]]_vars

\* A call alone on its key has ended while a call on another key, made
\* before it, is still retrying.
C32_Witness ==
    \E c, d \in Calls :
        /\ Finished(c) /\ FreshKey(c) /\ key[d] # key[c]
        /\ rpc[d] = "sleep" /\ d < c

\* C36: the override last installed for a domain by setCustomHeaders, and
\* not cleared by reset() since, is the domain's custom headers as long as
\* its own ttl has not elapsed, and for ever when it has none: the timer of
\* an earlier override does not delete it.
C36_OverrideOutlivesEarlierTimers ==
    \A d \in Domains :
        (overrides[d] # <<>> /\ (overrides[d][1].due = 0 \/ now < overrides[d][1].due))
            => customHeaders[d] = <<overrides[d][1].headers>>

\* What the executePipeline calls invoked, call by call: the calls that have
\* ended and the current one.
InvocationLogs == {invoked} \cup {phistory[i].invoked : i \in 1..Len(phistory)}

\* A call invoked the middleware in the order of the list from its head, and
\* nothing after its pipeline.
ChainFromFirst(log) ==
    \A j \in 1..Len(log) :
        IF log[j].step = 0
        THEN j = Len(log)
        ELSE log[j].step = j /\ log[j].fn = middleware[j]

\* A call invoked nothing after a middleware that throws.
StopsAtThrow(log) ==
    \A j \in 1..Len(log) : (log[j].step # 0 /\ log[j].fn = "throw") => j = Len(log)

\* The executePipeline call before the current one ended by a middleware's
\* throw.
ThrownByMiddleware ==
    /\ phistory # <<>>
    /\ LET h == phistory[Len(phistory)]
       IN  /\ h.ended = "thrown" /\ h.invoked # <<>>
           /\ h.invoked[Len(h.invoked)].step # 0

\* C38: when a middleware throws during executePipeline, that call invokes no
\* later middleware and not the pipeline, and the step in which the call
\* throws leaves the registry of pipelines and the list of middleware as they
\* are; the executePipeline call that follows goes through the chain again
\* from the first middleware: it invokes what the call before it invoked, in
\* the same order, up to the middleware that throws.
C38_ThrowStopsChainOnly ==
    /\ [](\A log \in InvocationLogs : ChainFromFirst(log) /\ StopsAtThrow(log))
    /\ [](ThrownByMiddleware =>
            LET before == phistory[Len(phistory)].invoked
            IN  /\ Len(invoked) <= Len(before)
                /\ invoked = SubSeq(before, 1, Len(invoked))
                /\ pstate \in {"returned", "thrown"} => invoked = before)
    /\ [][(pstate = "middleware" /\ pstate' = "thrown") =>
            (pipelines' = pipelines /\ middleware' = middleware /\ invoked' = invoked)]_vars

\* The second middleware of the list threw in one call, and the call that
\* followed has gone through the chain up to it again.
C38_Witness ==
    /\ ThrownByMiddleware
    /\ Len(phistory[Len(phistory)].invoked) >= 2
    /\ pstate = "thrown"
    /\ invoked = phistory[Len(phistory)].invoked

\* The fetch calls on a domain whose headers have been resolved.
Resolved(d) == {c \in Calls : rpc[c] # "idle" /\ hdomain[c] = d /\ hpc[c] = "done"}

\* C37: one Crawler.fetch(url) call resolves the headers of its domain once,
\* before its first attempt.  A call that has entered the retry loop has its
\* headers; the domain's rotation index has advanced once for each fetch call
\* whose headers are resolved, whatever their attempt counters are (with one
\* user agent there is no index to advance); and every network call of a
\* fetch carries the headers resolved at the head of that fetch, whatever the
\* domain's headers have become since.
C37_HeadersResolvedOncePerFetch ==
    /\ \A c \in Calls :
          /\ rpc[c] \notin {"idle", "headers"} => hpc[c] = "done"
          /\ \A i \in 1..Len(sent[c]) : sent[c][i] = hreturn[c] /\ hreturn[c] # <<>>
    /\ \A d \in Domains :
          IF Len(userAgents) > 1
          THEN CurrentIndex(d) = Cardinality(Resolved(d)) % Len(userAgents)
          ELSE userAgentIndex[d] = <<>>

\* A fetch has gone through two attempts and thrown; the headers of its
\* network call are not what the domain's headers are now; the rotation index
\* of its domain has advanced once.
C37_Witness ==
    \E c \in Calls :
        /\ rpc[c] = "thrown" /\ attempt[c] >= 2
        /\ Len(sent[c]) = 1
        /\ domainHeaders[hdomain[c]] # <<>>
        /\ "Accept" \in DOMAIN sent[c][1][1] /\ sent[c][1][1]["Accept"] = "text/html"
        /\ Len(userAgents) > 1 /\ CurrentIndex(hdomain[c]) = 1

\* C34: during content extraction at most the first three cases are saved as
\* markdown files: savedToFileCount never exceeds 3, at most three files are
\* written, and no two writes go to the same name case_k.md.
C34_AtMostThreeFiles ==
    /\ savedToFileCount <= 3
    /\ Len(written) <= 3
    /\ \A i, j \in 1..Len(written) : i # j => written[i] # written[j]

\* The cases whose processCase has run to its end.
CasesDone == {c \in Cases : xpc[c] \in {"settled", "finished"}}

\* C39: in execute of the content extractor every input case is counted
\* once, as processed or as failed: processedCount + failedCount is at every
\* moment the number of cases whose processCase has run to its end, and the
\* totals execute returns add up to the number of input cases.
C39_EveryCaseCountedOnce ==
    /\ processedCount + failedCount = Cardinality(CasesDone)
    /\ xstate = "returned" =>
          xreturn[1].totalProcessed + xreturn[1].totalFailed = inputCases

\* execute has returned after more than one batch, with processed and with
\* failed cases.
C39_Witness ==
    /\ xstate = "returned"
    /\ inputCases > BatchSize
    /\ xreturn[1].totalProcessed >= 2 /\ xreturn[1].totalFailed >= 1

\* C40: in execute of the case collection, a court whose page failed with
\* status 500 for some year is fetched for no earlier year and is out of
\* this.baseUrls from the end of that year on; the loop is left by the return
\* exactly when no court remains; a page that fails with any other status
\* makes execute throw that error; and this.cases only ever grows.
C40_CourtsEndAt500 ==
    /\ [](\A e \in ended :
            /\ \A f \in fetchedPages : f[1] = e[1] => f[2] <= e[2]
            /\ (cstate \in {"loop", "drain", "returned"} \/ currentYear > e[2])
                    => ~InBaseUrls(e[1]))
    /\ [](cstate = "returned" => Len(baseUrls) = 0)
    /\ [][(cstate = "loop" /\ cstate' # "loop") =>
            (cstate' = "returned" <=> Len(baseUrls) = 0)]_vars
    /\ []((\E u \in Courts : cpc[u] = "finished" /\ cresult[u].status \notin {0, 200, 500})
            => /\ cstate = "thrown"
               /\ cthrown[1].status \notin {200, 500}
               /\ cthrown[1].year = currentYear
               /\ cresult[cthrown[1].court].status = cthrown[1].status)
    /\ [](cstate = "thrown" =>
            \E u \in Courts : cpc[u] = "finished" /\ cresult[u].status \notin {0, 200, 500})
    /\ [][collected \subseteq collected']_vars

\* execute has returned after two years: one court ended in the first year,
\* another, of which cases were collected in the first year, in the second.
C40_Witness ==
    /\ cstate = "returned"
    /\ currentYear = 2
    /\ \E e, f \in ended : e[2] = 0 /\ f[2] = 1 /\ <<f[1], 0>> \in collected

====
